---- MODULE Spec2Model ----
(***************************************************************************)
(* Model of the Instagram webhook pipeline of conversa (core/views.py,     *)
(* core/instagram_api.py, core/ai_chat.py, core/models.py).                *)
(*                                                                         *)
(* Representation.  Python None is the string NoneVal where the value is   *)
(* a string, NoCtx where it is a dict, NoText where it is a text and       *)
(* NoCustomer where it is a Customer.  A text is a sequence of tokens      *)
(* (the empty text is the empty sequence, which Python treats as falsy).   *)
(* A sender id is a triple: <<"id", s, 0>> for the platform id s, and      *)
(* <<"user", page, t>> for the f-string "user_{page}_{t}".                 *)
(*                                                                         *)
(* Failures.  What an event can make the code raise is modelled: several   *)
(* Business rows matching the page id, a sender that is no JSON object,    *)
(* a model endpoint or a gateway that fails.  Statements of the ORM are    *)
(* taken to succeed when the database accepts them, so the handler of      *)
(* views.py lines 670-679, which get_ai_response and                       *)
(* send_instagram_text_reply never reach by raising, is not entered.       *)
(***************************************************************************)
EXTENDS Integers, Sequences, FiniteSets, TLC

VARIABLES
    businesses,   \* Business table: id -> row (models.py Business)
    secret,       \* FB_APP_SECRET is configured
    customers,    \* Customer table: set of rows
    logs,         \* MessageLog table in insertion order
    now,          \* timezone.now(), in minutes
    req,          \* the POST being handled (payload: page id of each event's entry)
    idx,          \* position of the loop of _handle_webhook_message in the payload
    pc,           \* position inside _handle_webhook_message / _process_messaging_event
    loc,          \* local variables of _process_messaging_event
    calls,        \* external calls of the current event (caption fetch, AI engine, send)
    last,         \* summary of the event that has just ended
    status,       \* HTTP status of the last answered request
    nreq,         \* POSTs received so far
    nev,          \* events begun so far
    aicall,       \* one call of get_ai_response: its arguments and its result
    fncall,       \* one call of another function on its own: its arguments and its result
    procs         \* requests handled at the same time: each one's position and locals

vars == <<businesses, secret, customers, logs, now, req, idx, pc, loc, calls, last, status, nreq, nev, aicall, fncall, procs>>

-----------------------------------------------------------------------------
(* Bounds of the model *)

MaxEvents == 2
MaxRequests == 2
MaxTime == 12
TickStep == 6
MaxProcs == 3
MaxHistoryRows == 4
HistoryTickStep == 70
MaxHistoryTime == 150

\* Rows of an imported sheet
MaxImportRows == 3

-----------------------------------------------------------------------------
(* Values *)

NoneVal == "None"
NoCtx == [k \in {} |-> NoneVal]
NoText == <<>>
NoCustomer == <<>>
Id(s) == <<"id", s, 0>>

\* sender id None: it equals the page id of an entry that carries no id
NoSender == Id(NoneVal)

BizIds == {"b1", "b2", "b3", "b4", "b5"}

\* Business.objects ordered by primary key
BizOrder == <<"b1", "b2", "b3", "b4", "b5">>

PageIds == {"p1", "p2", "p3", "p9", NoneVal}

\* created_at__gte = now - timedelta(minutes=10)
ContextWindow == 10

-----------------------------------------------------------------------------
(* core/models.py *)

\* models.py Business: instagram_page_id, active, ai_enabled,
\* allow_auto_reply_from_unknown, page_access_token
Business(page, active, ai, allow, token) ==
    [page |-> page, active |-> active, ai_enabled |-> ai,
     allow_auto_reply_from_unknown |-> allow, page_access_token |-> token]

\* models.py Customer: platform, platform_id, business
Customer(platform, pid, biz) ==
    [platform |-> platform, platform_id |-> pid, business |-> biz]

\* The reply_text column holds either an AI reply or json.dumps(post_context)
ReplyNone == [kind |-> "null", text |-> NoText, json |-> <<>>]
ReplyText(t) == [kind |-> "text", text |-> t, json |-> <<>>]
ReplyJson(j) == [kind |-> "json", text |-> NoText, json |-> j]

\* models.py MessageLog; ev is the number of the event that wrote the row
MessageLog(biz, cust, sender, incoming, reply, direction, err, at, ev) ==
    [business |-> biz, customer |-> cust, sender_id |-> sender,
     incoming_text |-> incoming, reply_text |-> reply, direction |-> direction,
     error_message |-> err, created_at |-> at, ev |-> ev]

-----------------------------------------------------------------------------
(* core/instagram_api.py *)

AppSecret == "app_secret"

\* hmac.new(key, payload, sha256).hexdigest()
HmacSha256(key, body) == <<"sha256", key, body>>

\* An X-Hub-Signature-256 header: the hex digest with or without "sha256="
Header(prefix, hex) == [prefix |-> prefix, hex |-> hex]

Headers(body) ==
    {Header(p, h) : p \in BOOLEAN,
                    h \in {HmacSha256(AppSecret, body), HmacSha256("other", body)}}

\* verify_webhook_signature without the comparison of the digests
verify_webhook_signature_open(hasSecret, body, hdr) == TRUE

\* verify_webhook_signature: no secret => True; otherwise strip the prefix
\* and compare with the expected digest
verify_webhook_signature(hasSecret, body, hdr) ==
    IF ~hasSecret THEN TRUE
    ELSE hdr.hex = HmacSha256(AppSecret, body)

\* send_instagram_text_reply: every outcome is returned, none is raised
SendOutcomes == {"200", "http_error", "network_error"}

send_instagram_text_reply(outcome) ==
    CASE outcome = "200" -> [success |-> TRUE, error |-> NoneVal]
      [] outcome = "http_error" -> [success |-> FALSE, error |-> "Instagram API Error"]
      [] OTHER -> [success |-> FALSE, error |-> "Failed to send Instagram message"]

-----------------------------------------------------------------------------
(* core/views.py: post context *)

\* dict[k] = v
Put(d, k, v) == [x \in (DOMAIN d) \cup {k} |-> IF x = k THEN v ELSE d[x]]

\* message_data of an event: the keys the extractor reads (NoneVal: key absent).
\* share is the url of a "share" attachment: <<kind, id>> with kind "post"
\* (instagram.com/p/<id>), "cdn" (lookaside.fbsbx.com ... asset_id=<id>),
\* "other" (any other url) or "none" (no such attachment).
MessageData(text, media, post, share, story, reel) ==
    [text |-> text, media_id |-> media, post_id |-> post, share |-> share,
     story |-> story, reel |-> reel]

NoShare == <<"none", NoneVal>>

\* Business.objects.filter(page_access_token__isnull=False,
\*                         page_access_token__gt='').first()
RECURSIVE FirstWithToken(_, _)
FirstWithToken(biz, i) ==
    IF i > Len(BizOrder) THEN NoneVal
    ELSE IF biz[BizOrder[i]].page_access_token \notin {NoneVal, ""} THEN BizOrder[i]
    ELSE FirstWithToken(biz, i + 1)

\* _fetch_post_caption_from_media_id / _fetch_post_caption_from_asset_id:
\* fetched is the caption field of the Graph API answer (NoneVal: request
\* failed, status not 200, or caption empty)
fetch_post_caption(biz, fetched) ==
    IF FirstWithToken(biz, 1) = NoneVal THEN NoneVal ELSE fetched

\* _extract_post_context: capMedia / capAsset are the results of the two
\* caption fetches; the empty dict is returned as None
extract_post_context(md, capMedia, capAsset) ==
    LET c1 == IF md.media_id # NoneVal
              THEN LET a == Put(NoCtx, "media_id", md.media_id)
                   IN IF capMedia # NoneVal THEN Put(a, "post_caption", capMedia) ELSE a
              ELSE NoCtx
        c2 == IF md.post_id # NoneVal THEN Put(c1, "post_id", md.post_id) ELSE c1
        c3 == CASE md.share[1] = "post" ->
                     Put(Put(c2, "post_id", md.share[2]), "post_url", "url_post")
                 [] md.share[1] = "cdn" ->
                     LET a == Put(Put(c2, "asset_id", md.share[2]), "share_url", "url_cdn")
                     IN IF capAsset # NoneVal THEN Put(a, "post_caption", capAsset) ELSE a
                 [] OTHER -> c2
        c4 == IF md.story # NoneVal
              THEN Put(Put(c3, "story_id", md.story), "story_url", "url_story")
              ELSE c3
        c5 == IF md.reel # NoneVal
              THEN Put(Put(c4, "reel_id", md.reel), "reel_url", "url_reel")
              ELSE c4
    IN c5

\* Keys of a post context, in the order json.dumps writes them
CtxKeys == <<"media_id", "post_caption", "post_id", "post_url", "asset_id",
             "share_url", "story_id", "story_url", "reel_id", "reel_url">>

\* json.dumps(post_context): the key/value pairs in order
RECURSIVE json_dumps_from(_, _)
json_dumps_from(d, i) ==
    IF i > Len(CtxKeys) THEN <<>>
    ELSE IF CtxKeys[i] \in DOMAIN d
         THEN <<(<<CtxKeys[i], d[CtxKeys[i]]>>)>> \o json_dumps_from(d, i + 1)
         ELSE json_dumps_from(d, i + 1)

json_dumps(d) == json_dumps_from(d, 1)

\* json.loads of such a string
json_loads(j) ==
    [k \in {j[i][1] : i \in 1..Len(j)} |->
        LET i == CHOOSE n \in 1..Len(j) : j[n][1] = k IN j[i][2]]

StoredMarker == <<"[POST_CONTEXT_STORED]">>

\* _store_post_context_in_conversation: get_or_create the Customer of
\* (business, platform_id), then create the marker row.  A missing sender id
\* violates NOT NULL on Customer.platform_id; the exception is caught and
\* nothing is written.
StoreCustomers(cust, biz, sender) ==
    IF sender = NoSender THEN cust
    ELSE IF \E c \in cust : c.business = biz /\ c.platform_id = sender THEN cust
    ELSE cust \cup {Customer("instagram", sender, biz)}

StoreLogs(lg, biz, sender, ctx, t, ev) ==
    IF sender = NoSender THEN lg
    ELSE Append(lg, MessageLog(biz, NoCustomer, sender, StoredMarker,
                               ReplyJson(json_dumps(ctx)), "incoming", NoneVal, t, ev))

\* _get_stored_post_context: the latest marker row of (business, sender)
\* created within the last 10 minutes, decoded
RecentMarkers(lg, biz, sender, t) ==
    {i \in 1..Len(lg) : /\ lg[i].business = biz
                        /\ lg[i].sender_id = sender
                        /\ lg[i].incoming_text = StoredMarker
                        /\ lg[i].created_at >= t - ContextWindow}

\* _get_stored_post_context that finds no row
get_stored_post_context_blind(lg, biz, sender, t) == NoCtx

get_stored_post_context(lg, biz, sender, t) ==
    LET recent == RecentMarkers(lg, biz, sender, t)
    IN IF recent = {} THEN NoCtx
       ELSE LET latest == CHOOSE i \in recent :
                              \A k \in recent : /\ lg[k].created_at <= lg[i].created_at
                                                /\ (lg[k].created_at = lg[i].created_at => k <= i)
                row == lg[latest]
            IN IF row.reply_text.kind = "json" THEN json_loads(row.reply_text.json)
               ELSE NoCtx

\* _enhance_message_with_post_context: " ".join of the text and the markers
Marker(ctx, key, label) ==
    IF key \in DOMAIN ctx THEN <<label, ctx[key]>> ELSE <<>>

\* _enhance_message_with_post_context that leaves the caption out
enhance_message_with_post_context_uncaptioned(text, ctx) ==
    IF ctx = NoCtx THEN text
    ELSE text
         \o Marker(ctx, "media_id", "[This message is a reply to media ID:")
         \o Marker(ctx, "post_id", "[This message is a reply to post ID:")
         \o Marker(ctx, "post_url", "[Post URL:")
         \o Marker(ctx, "story_id", "[This message is a reply to story ID:")
         \o Marker(ctx, "reel_id", "[This message is a reply to reel ID:")
         \o <<"[Please consider that this message is a reply to a post.]">>

enhance_message_with_post_context(text, ctx) ==
    IF ctx = NoCtx THEN text
    ELSE text
         \o Marker(ctx, "media_id", "[This message is a reply to media ID:")
         \o Marker(ctx, "post_id", "[This message is a reply to post ID:")
         \o Marker(ctx, "post_url", "[Post URL:")
         \o Marker(ctx, "post_caption", "[Post caption:")
         \o Marker(ctx, "story_id", "[This message is a reply to story ID:")
         \o Marker(ctx, "reel_id", "[This message is a reply to reel ID:")
         \o <<"[Please consider that this message is a reply to a post.]">>

-----------------------------------------------------------------------------
(* core/ai_chat.py *)

MAX_MESSAGE_LENGTH == 1000

\* timezone.now() - timedelta(hours=2), in minutes
HistoryWindow == 120

EmptyMessageReply == <<"I received your message but it appears to be empty.">>

BusinessErrorReply == <<"I'm sorry, but I'm having trouble accessing your business information right now.">>

\* _get_fallback_response
get_fallback_response == <<"Thank you for your message! I'm currently having trouble processing your request.">>

\* str.strip(): leading and trailing whitespace tokens removed
RECURSIVE LStrip(_)
LStrip(t) == IF t # <<>> /\ Head(t) = " " THEN LStrip(Tail(t)) ELSE t

RECURSIVE RStrip(_)
RStrip(t) == IF t # <<>> /\ t[Len(t)] = " " THEN RStrip(SubSeq(t, 1, Len(t) - 1)) ELSE t

Strip(t) == RStrip(LStrip(t))

\* seq[-n:]
LastN(s, n) == IF Len(s) <= n THEN s ELSE SubSeq(s, Len(s) - n + 1, Len(s))

\* seq[:n]
FirstN(s, n) == IF Len(s) <= n THEN s ELSE SubSeq(s, 1, n)

\* Truthiness of a reply_text column
ReplyTruthy(r) == r.kind = "json" \/ (r.kind = "text" /\ r.text # <<>>)

\* _get_conversation_history: rows of the business (and sender) created in the
\* last two hours, ordered by created_at ascending, the first 3 of them, each
\* giving a user turn (incoming_text) and an assistant turn (reply_text)
RECURSIVE HistoryRows(_, _, _, _, _)
HistoryRows(lg, i, biz, sender, since) ==
    IF i > Len(lg) THEN <<>>
    ELSE IF /\ lg[i].business = biz
            /\ lg[i].created_at >= since
            /\ (sender # NoSender => lg[i].sender_id = sender)
         THEN <<lg[i]>> \o HistoryRows(lg, i + 1, biz, sender, since)
         ELSE HistoryRows(lg, i + 1, biz, sender, since)

RECURSIVE HistoryTurns(_)
HistoryTurns(rows) ==
    IF rows = <<>> THEN <<>>
    ELSE LET r == Head(rows)
         IN (IF r.incoming_text # NoText
             THEN <<[role |-> "user", content |-> ReplyText(r.incoming_text)]>> ELSE <<>>)
            \o (IF ReplyTruthy(r.reply_text)
                THEN <<[role |-> "assistant", content |-> r.reply_text]>> ELSE <<>>)
            \o HistoryTurns(Tail(rows))

get_conversation_history(lg, t, biz, sender) ==
    HistoryTurns(FirstN(HistoryRows(lg, 1, biz, sender, t - HistoryWindow), 3))

\* Tokens whose lower-cased text contains one of the greeting phrases
\* ('hello', 'hi', 'hey', ..., 'what do you sell', ...) as a substring
GreetingTokens ==
    {"hi", "hello", "[This message is a reply to media ID:",
     "[This message is a reply to post ID:", "[This message is a reply to story ID:",
     "[This message is a reply to reel ID:",
     "[Please consider that this message is a reply to a post.]"}

\* _is_greeting_or_general_question
is_greeting_or_general_question(msg) == \E i \in 1..Len(msg) : msg[i] \in GreetingTokens

\* What the OpenAI endpoint does in one get_ai_response call: key is
\* "OPENAI_API_KEY is set"; first and second are the two completions:
\* "raise" (network error, timeout), "text" (content is a text), "notext"
\* (content is None), "tool" (function_call with JSON arguments),
\* "tool_badjson" (function_call whose arguments are not JSON)
OpenAI(key, first, second, content) ==
    [key |-> key, first |-> first, second |-> second, content |-> content]

AiResult(text, raised, modelCalls, toolRuns, user, history) ==
    [text |-> text, raised |-> raised, model_calls |-> modelCalls,
     tool_runs |-> toolRuns, user_message |-> user, history |-> history]

\* The try block with a completion without text read as the empty text and
\* arguments that are no JSON read as no arguments
openai_try_block_lenient(m, user, history) ==
    CASE m.first = "raise" -> AiResult(NoText, TRUE, 1, 0, user, history)
      [] m.first = "text" -> AiResult(Strip(m.content), FALSE, 1, 0, user, history)
      [] m.first = "notext" -> AiResult(NoText, FALSE, 1, 0, user, history)
      [] OTHER ->
           CASE m.second = "raise" -> AiResult(NoText, TRUE, 2, 1, user, history)
             [] m.second = "text" -> AiResult(Strip(m.content), FALSE, 2, 1, user, history)
             [] OTHER -> AiResult(NoText, FALSE, 2, 1, user, history)

\* The try block following a function_call of the second completion with a
\* second tool run and a third completion
openai_try_block_chained(m, user, history) ==
    CASE m.first = "raise" -> AiResult(NoText, TRUE, 1, 0, user, history)
      [] m.first = "text" -> AiResult(Strip(m.content), FALSE, 1, 0, user, history)
      [] m.first = "notext" -> AiResult(NoText, TRUE, 1, 0, user, history)
      [] m.first = "tool_badjson" -> AiResult(NoText, TRUE, 1, 0, user, history)
      [] OTHER ->
           CASE m.second = "raise" -> AiResult(NoText, TRUE, 2, 1, user, history)
             [] m.second = "text" -> AiResult(Strip(m.content), FALSE, 2, 1, user, history)
             [] m.second = "tool" -> AiResult(Strip(m.content), FALSE, 3, 2, user, history)
             [] OTHER -> AiResult(NoText, TRUE, 2, 1, user, history)

\* Body of the try block of _call_openai_api_with_functions: raised tells
\* that an exception left the block
openai_try_block(m, user, history) ==
    CASE m.first = "raise" -> AiResult(NoText, TRUE, 1, 0, user, history)
      [] m.first = "text" -> AiResult(Strip(m.content), FALSE, 1, 0, user, history)
      [] m.first = "notext" -> AiResult(NoText, TRUE, 1, 0, user, history)
      [] m.first = "tool_badjson" -> AiResult(NoText, TRUE, 1, 0, user, history)
      [] OTHER ->
           CASE m.second = "raise" -> AiResult(NoText, TRUE, 2, 1, user, history)
             [] m.second = "text" -> AiResult(Strip(m.content), FALSE, 2, 1, user, history)
             [] OTHER -> AiResult(NoText, TRUE, 2, 1, user, history)

\* The chat.completions.create requests of one run of the try block, in
\* order: whether the request carries the functions menu (lines 281-289
\* carry it, lines 317-323 do not)
CompletionRequests(m) ==
    IF m.first = "tool"
    THEN <<[functions |-> TRUE], [functions |-> FALSE]>>
    ELSE <<[functions |-> TRUE]>>

\* _call_openai_api_with_functions: no key => fallback; an exception of the
\* try block => fallback
call_openai_api_with_functions(m, user, history) ==
    IF ~m.key THEN AiResult(get_fallback_response, FALSE, 0, 0, user, history)
    ELSE LET r == openai_try_block(m, user, LastN(history, 3))
         IN IF r.raised THEN [r EXCEPT !.text = get_fallback_response, !.raised = FALSE]
            ELSE r

\* get_ai_response without the lookup of the business
get_ai_response_unresolved(biz, lg, t, bid, msg, sender, m) ==
    IF Strip(msg) = <<>>
    THEN AiResult(EmptyMessageReply, FALSE, 0, 0, msg, <<>>)
    ELSE LET h == get_conversation_history(lg, t, bid, sender)
             history == IF is_greeting_or_general_question(msg) THEN LastN(h, 1) ELSE h
             r == call_openai_api_with_functions(m, msg, history)
         IN IF r.raised
            THEN [r EXCEPT !.text = get_fallback_response, !.raised = FALSE]
            ELSE r

\* get_ai_response
\* get_ai_response without the cut of lines 46-48
get_ai_response_uncut(biz, lg, t, bid, msg, sender, m) ==
    IF Strip(msg) = <<>>
    THEN AiResult(EmptyMessageReply, FALSE, 0, 0, msg, <<>>)
    ELSE IF ~(bid \in DOMAIN biz /\ biz[bid].active)
         THEN AiResult(BusinessErrorReply, FALSE, 0, 0, msg, <<>>)
         ELSE LET h == get_conversation_history(lg, t, bid, sender)
                  history == IF is_greeting_or_general_question(msg)
                             THEN LastN(h, 1) ELSE h
                  r == call_openai_api_with_functions(m, msg, history)
              IN IF r.raised
                 THEN [r EXCEPT !.text = get_fallback_response, !.raised = FALSE]
                 ELSE r

\* get_ai_response without the greeting filter of lines 61-63
get_ai_response_unfiltered(biz, lg, t, bid, msg, sender, m) ==
    IF Strip(msg) = <<>>
    THEN AiResult(EmptyMessageReply, FALSE, 0, 0, msg, <<>>)
    ELSE LET message == IF Len(msg) > MAX_MESSAGE_LENGTH
                        THEN SubSeq(msg, 1, MAX_MESSAGE_LENGTH) ELSE msg
         IN IF ~(bid \in DOMAIN biz /\ biz[bid].active)
            THEN AiResult(BusinessErrorReply, FALSE, 0, 0, message, <<>>)
            ELSE LET history == get_conversation_history(lg, t, bid, sender)
                     r == call_openai_api_with_functions(m, message, history)
                 IN IF r.raised
                    THEN [r EXCEPT !.text = get_fallback_response, !.raised = FALSE]
                    ELSE r

\* get_ai_response with the lookup of the business ahead of the test of the
\* message
get_ai_response_resolved_first(biz, lg, t, bid, msg, sender, m) ==
    IF ~(bid \in DOMAIN biz /\ biz[bid].active)
    THEN AiResult(BusinessErrorReply, FALSE, 0, 0, msg, <<>>)
    ELSE IF Strip(msg) = <<>>
    THEN AiResult(EmptyMessageReply, FALSE, 0, 0, msg, <<>>)
    ELSE LET message == IF Len(msg) > MAX_MESSAGE_LENGTH
                        THEN SubSeq(msg, 1, MAX_MESSAGE_LENGTH) ELSE msg
             h == get_conversation_history(lg, t, bid, sender)
             history == IF is_greeting_or_general_question(message)
                        THEN LastN(h, 1) ELSE h
             r == call_openai_api_with_functions(m, message, history)
         IN IF r.raised
            THEN [r EXCEPT !.text = get_fallback_response, !.raised = FALSE]
            ELSE r

get_ai_response(biz, lg, t, bid, msg, sender, m) ==
    IF Strip(msg) = <<>>
    THEN AiResult(EmptyMessageReply, FALSE, 0, 0, msg, <<>>)
    ELSE LET message == IF Len(msg) > MAX_MESSAGE_LENGTH
                        THEN SubSeq(msg, 1, MAX_MESSAGE_LENGTH) ELSE msg
         IN IF ~(bid \in DOMAIN biz /\ biz[bid].active)
            THEN AiResult(BusinessErrorReply, FALSE, 0, 0, message, <<>>)
            ELSE LET h == get_conversation_history(lg, t, bid, sender)
                     history == IF is_greeting_or_general_question(message)
                                THEN LastN(h, 1) ELSE h
                     r == call_openai_api_with_functions(m, message, history)
                 IN IF r.raised
                    THEN [r EXCEPT !.text = get_fallback_response, !.raised = FALSE]
                    ELSE r

-----------------------------------------------------------------------------
(* Inputs of the webhook *)

\* f"user_{page_id}_{timezone.now().timestamp()}"
FallbackSender(page, t) == <<"user", page, t>>

\* sender of an event: a platform user, the page itself, absent, or a value
\* that is no JSON object
SenderKinds == {"u1", "self", "missing", "malformed"}

RawSender(kind, page) ==
    CASE kind = "self" -> Id(page)
      [] kind = "missing" -> NoSender
      [] OTHER -> Id(kind)

Texts == {<<>>, <<"hi">>}

Shapes ==
    {MessageData(NoText, NoneVal, NoneVal, NoShare, NoneVal, NoneVal),
     MessageData(NoText, "m1", NoneVal, NoShare, NoneVal, NoneVal),
     MessageData(NoText, NoneVal, NoneVal, <<"post", "po1">>, NoneVal, NoneVal),
     MessageData(NoText, NoneVal, NoneVal, NoShare, "s1", NoneVal)}

Events ==
    {[sender |-> k, md |-> [m EXCEPT !.text = t]] :
        k \in SenderKinds, m \in Shapes, t \in Texts}

CaptionResults == {NoneVal, "cap1"}

\* The model endpoint as the pipeline meets it
PipelineModels ==
    {OpenAI(TRUE, "text", "text", <<"r1">>), OpenAI(TRUE, "raise", "text", <<"r1">>)}

PipelineSends == {"200", "http_error"}

\* Payloads: the page id of the entry of each event, in payload order
RECURSIVE SeqsUpTo(_, _)
SeqsUpTo(S, n) ==
    IF n = 0 THEN {<<>>}
    ELSE LET shorter == SeqsUpTo(S, n - 1)
         IN shorter \cup {Append(q, x) : q \in {r \in shorter : Len(r) = n - 1}, x \in S}

\* A POST: whether its header carries the digest of its body, its body, its
\* payload, and whether the processing of one of its events has raised
Request(matches, body, payload) ==
    [sig_matches |-> matches, body |-> body, payload |-> payload, failed |-> FALSE]

NoRequest == Request(TRUE, "none", <<>>)

\* An external call: the event it belongs to, what is called ("caption",
\* "ai", "send"), the business, access token, recipient or sender and text
\* passed, and what came back (a text, an error string)
Call(ev, kind, biz, token, target, text, reply, error) ==
    [ev |-> ev, kind |-> kind, biz |-> biz, token |-> token, target |-> target,
     text |-> text, reply |-> reply, error |-> error]

LocInit ==
    [ev |-> 0, page |-> NoneVal,
     md |-> MessageData(NoText, NoneVal, NoneVal, NoShare, NoneVal, NoneVal),
     business |-> NoneVal, sender_id |-> NoSender, message_text |-> NoText,
     post_context |-> NoCtx, final_post_context |-> NoCtx,
     customer |-> NoCustomer, ai_response |-> NoText,
     send_result |-> [success |-> FALSE, error |-> NoneVal],
     first |-> 0, ncust |-> 0, known |-> FALSE]

\* get_ai_response has not been called
NoAiCall ==
    [pc |-> "ready", bid |-> NoneVal, msg |-> NoText, sender |-> NoSender,
     m |-> OpenAI(TRUE, "text", "text", NoText),
     result |-> AiResult(NoText, FALSE, 0, 0, NoText, <<>>)]

\* No function has been called on its own
NoFnCall == [pc |-> "ready", name |-> NoneVal, args |-> <<>>, result |-> NoneVal]

\* No event has ended yet
NoSummary == [ev |-> 0, idx |-> 0, page |-> NoneVal, business |-> NoneVal,
              has_text |-> FALSE, has_context |-> FALSE, known |-> FALSE,
              outcome |-> "none", first |-> 0, ncust |-> 0]

-----------------------------------------------------------------------------
(* Initial state *)

\* b1 is linked and live; b2 is linked and inactive; b3 is linked with AI
\* switched off; b4 and b5 are not linked to a page (instagram_page_id NULL)
Config(allow, a4, a5) ==
    [b \in BizIds |->
        CASE b = "b1" -> Business("p1", TRUE, TRUE, allow, "t1")
          [] b = "b2" -> Business("p2", FALSE, TRUE, TRUE, "t2")
          [] b = "b3" -> Business("p3", TRUE, FALSE, TRUE, "t3")
          [] b = "b4" -> Business(NoneVal, a4, TRUE, FALSE, NoneVal)
          [] OTHER -> Business(NoneVal, a5, TRUE, FALSE, NoneVal)]

Init ==
    /\ \/ /\ businesses \in {Config(TRUE, FALSE, FALSE), Config(FALSE, FALSE, FALSE),
                             Config(FALSE, TRUE, FALSE), Config(FALSE, TRUE, TRUE)}
          /\ secret = TRUE
       \/ /\ businesses = Config(TRUE, FALSE, FALSE)
          /\ secret = FALSE
    /\ customers = {}
    /\ logs = <<>>
    /\ now = 0
    /\ req = NoRequest
    /\ idx = 0
    /\ pc = "idle"
    /\ loc = LocInit
    /\ calls = <<>>
    /\ last = NoSummary
    /\ status = "none"
    /\ nreq = 0
    /\ nev = 0
    /\ aicall = NoAiCall
    /\ fncall = NoFnCall
    /\ procs = [p \in 1..MaxProcs |-> [pc |-> "idle", sender |-> NoSender,
                                      created |-> FALSE, conflict |-> FALSE]]

-----------------------------------------------------------------------------
(* core/views.py: _handle_webhook_message *)

\* The entry of the handler with JSONDecodeError left to the handler of line 534
Receive_unparsed ==
    /\ pc = "idle"
    /\ nreq < MaxRequests
    /\ \E body \in {"json", "malformed", "scalar"} :
       \E hdr \in Headers(body) :
       \E payload \in SeqsUpTo(PageIds, MaxEvents - nev) :
          /\ body # "json" => payload = <<>>
          /\ nreq' = nreq + 1
          /\ req' = Request(hdr.hex = HmacSha256(AppSecret, body), body, payload)
          /\ IF ~verify_webhook_signature(secret, body, hdr)
             THEN status' = "403" /\ pc' = "idle" /\ idx' = 0
             ELSE IF body \in {"malformed", "scalar"}
             THEN status' = "500" /\ pc' = "idle" /\ idx' = 0
             ELSE status' = "none" /\ pc' = "loop" /\ idx' = 1
    /\ UNCHANGED <<businesses, secret, customers, logs, now, loc, calls, last, nev, aicall, fncall, procs>>

\* Lines 494-516: signature check, JSON parse, entry of the loop.  body is
\* "json" (a JSON object), "malformed" (not JSON) or "scalar" (JSON, but no
\* object: the membership test of line 518 raises and line 536 answers 500).
Receive ==
    /\ pc = "idle"
    /\ nreq < MaxRequests
    /\ \E body \in {"json", "malformed", "scalar"} :
       \E hdr \in Headers(body) :
       \E payload \in SeqsUpTo(PageIds, MaxEvents - nev) :
          /\ body # "json" => payload = <<>>
          /\ nreq' = nreq + 1
          /\ req' = Request(hdr.hex = HmacSha256(AppSecret, body), body, payload)
          /\ IF ~verify_webhook_signature(secret, body, hdr)
             THEN status' = "403" /\ pc' = "idle" /\ idx' = 0
             ELSE IF body = "malformed"
             THEN status' = "400" /\ pc' = "idle" /\ idx' = 0
             ELSE IF body = "scalar"
             THEN status' = "500" /\ pc' = "idle" /\ idx' = 0
             ELSE status' = "none" /\ pc' = "loop" /\ idx' = 1
    /\ UNCHANGED <<businesses, secret, customers, logs, now, loc, calls, last, nev, aicall, fncall, procs>>

\* Line 532: the loop is over
Respond ==
    /\ pc = "loop"
    /\ idx > Len(req.payload)
    /\ status' = "200"
    /\ pc' = "idle"
    /\ idx' = 0
    /\ req' = NoRequest
    /\ calls' = <<>>
    /\ last' = NoSummary
    /\ UNCHANGED <<businesses, secret, customers, logs, now, loc, nreq, nev, aicall, fncall, procs>>

-----------------------------------------------------------------------------
(* core/views.py: _process_messaging_event *)

\* What is kept of an event once it is over: its number and position, the
\* business it resolved to, whether it carried text and post context, whether
\* its sender had a Customer row when it began, how it ended, and the length
\* of the MessageLog table when it began
Summary(l, outcome) ==
    [ev |-> l.ev, idx |-> idx, page |-> l.page, business |-> l.business,
     has_text |-> l.message_text # NoText, has_context |-> l.post_context # NoCtx,
     known |-> l.known, outcome |-> outcome, first |-> l.first, ncust |-> l.ncust]

\* The event returns (or its exception is caught at line 681): back to the loop
EndEvent(l, outcome) ==
    /\ last' = Summary(l, outcome)
    /\ loc' = LocInit
    /\ idx' = idx + 1
    /\ pc' = "loop"

\* Business.objects.get(instagram_page_id=page_id, active=True): the rows it
\* matches (a None page id is matched with IS NULL)
BusinessMatches(biz, page) == {b \in DOMAIN biz : biz[b].page = page /\ biz[b].active}

\* The head of _process_messaging_event without the ai_enabled check
ResolveOutcome_unchecked(biz, page, sender) ==
    LET found == BusinessMatches(biz, page)
    IN CASE found = {} -> "no_business"
         [] Cardinality(found) > 1 -> "raised"
         [] OTHER -> IF sender = "malformed" THEN "raised" ELSE "proceed"

\* Lines 554-570: how the head of _process_messaging_event ends: no row
\* matches (DoesNotExist, return), several match (MultipleObjectsReturned,
\* caught at line 681), AI switched off (return), sender no JSON object
\* (AttributeError, caught at line 681), or the event goes on
ResolveOutcome(biz, page, sender) ==
    LET found == BusinessMatches(biz, page)
    IN CASE found = {} -> "no_business"
         [] Cardinality(found) > 1 -> "raised"
         [] OTHER ->
              LET b == CHOOSE x \in found : TRUE
              IN IF ~biz[b].ai_enabled THEN "ai_disabled"
                 ELSE IF sender = "malformed" THEN "raised"
                 ELSE "proceed"

\* The next event of the payload with nothing catching what the head of
\* _process_messaging_event raises: the exception reaches line 534
Resolve_uncaught ==
    /\ pc = "loop"
    /\ idx <= Len(req.payload)
    /\ nev' = nev + 1
    /\ \E e \in Events :
         LET page == req.payload[idx]
             found == BusinessMatches(businesses, page)
             b == IF Cardinality(found) = 1 THEN CHOOSE x \in found : TRUE ELSE NoneVal
             out == ResolveOutcome(businesses, page, e.sender)
             sid == RawSender(e.sender, page)
             eff == IF sid = Id(page) \/ sid = NoSender THEN FallbackSender(page, now) ELSE sid
             l0 == [LocInit EXCEPT !.ev = nev + 1, !.page = page, !.business = b,
                                   !.first = Len(logs), !.ncust = Cardinality(customers)]
         IN IF out = "raised"
            THEN /\ last' = Summary(l0, out)
                 /\ loc' = LocInit
                 /\ idx' = 0
                 /\ pc' = "idle"
                 /\ status' = "500"
                 /\ req' = [req EXCEPT !.failed = TRUE]
            ELSE IF out # "proceed"
            THEN /\ EndEvent(l0, out)
                 /\ req' = req
                 /\ status' = status
            ELSE /\ loc' = [l0 EXCEPT !.sender_id = sid, !.md = e.md,
                                      !.message_text = e.md.text,
                                      !.known = \E c \in customers :
                                                   /\ c.business = b
                                                   /\ c.platform_id = eff]
                 /\ pc' = "extract"
                 /\ last' = NoSummary
                 /\ idx' = idx
                 /\ req' = req
                 /\ status' = status
    /\ calls' = <<>>
    /\ UNCHANGED <<businesses, secret, customers, logs, now, nreq, aicall, fncall, procs>>

\* Lines 526, 549-573: the next event of the payload; business resolution,
\* the ai_enabled check and the reading of sender id and message
Resolve ==
    /\ pc = "loop"
    /\ idx <= Len(req.payload)
    /\ nev' = nev + 1
    /\ \E e \in Events :
         LET page == req.payload[idx]
             found == BusinessMatches(businesses, page)
             b == IF Cardinality(found) = 1 THEN CHOOSE x \in found : TRUE ELSE NoneVal
             out == ResolveOutcome(businesses, page, e.sender)
             sid == RawSender(e.sender, page)
             eff == IF sid = Id(page) \/ sid = NoSender THEN FallbackSender(page, now) ELSE sid
             l0 == [LocInit EXCEPT !.ev = nev + 1, !.page = page, !.business = b,
                                   !.first = Len(logs), !.ncust = Cardinality(customers)]
         IN IF out # "proceed"
            THEN /\ EndEvent(l0, out)
                 /\ req' = [req EXCEPT !.failed = @ \/ out = "raised"]
            ELSE /\ loc' = [l0 EXCEPT !.sender_id = sid, !.md = e.md,
                                      !.message_text = e.md.text,
                                      !.known = \E c \in customers :
                                                   /\ c.business = b
                                                   /\ c.platform_id = eff]
                 /\ pc' = "extract"
                 /\ last' = NoSummary
                 /\ idx' = idx
                 /\ req' = req
    /\ calls' = <<>>
    /\ UNCHANGED <<businesses, secret, customers, logs, now, status, nreq, aicall, fncall, procs>>

\* Lines 575-578: _extract_post_context with its caption fetch
ExtractContext ==
    /\ pc = "extract"
    /\ LET fetches == loc.md.media_id # NoneVal /\ FirstWithToken(businesses, 1) # NoneVal
           tokenOf == businesses[FirstWithToken(businesses, 1)].page_access_token
       IN \E fetched \in CaptionResults :
             /\ ~fetches => fetched = NoneVal
             /\ loc' = [loc EXCEPT !.post_context =
                           extract_post_context(loc.md, fetch_post_caption(businesses, fetched),
                                                NoneVal)]
             /\ calls' = IF fetches
                         THEN Append(calls, Call(loc.ev, "caption", FirstWithToken(businesses, 1),
                                                 tokenOf, Id(loc.md.media_id), NoText,
                                                 NoText, fetched))
                         ELSE calls
    /\ pc' = "store"
    /\ UNCHANGED <<businesses, secret, customers, logs, now, req, idx, last, status, nreq, nev, aicall, fncall, procs>>

\* Lines 580-610: the context is stored, the stored context is read back, an
\* event without text returns, a missing or self sender id is replaced
StoreContext ==
    /\ pc = "store"
    /\ LET has == loc.post_context # NoCtx
           cust == IF has THEN StoreCustomers(customers, loc.business, loc.sender_id)
                   ELSE customers
           lg == IF has THEN StoreLogs(logs, loc.business, loc.sender_id, loc.post_context,
                                       now, loc.ev)
                 ELSE logs
           stored == get_stored_post_context(lg, loc.business, loc.sender_id, now)
           final == IF has THEN loc.post_context ELSE stored
           sid == IF loc.sender_id = Id(loc.page) \/ loc.sender_id = NoSender
                  THEN FallbackSender(loc.page, now) ELSE loc.sender_id
       IN /\ customers' = cust
          /\ logs' = lg
          /\ IF loc.message_text = NoText
             THEN EndEvent(loc, "no_text")
             ELSE /\ loc' = [loc EXCEPT !.final_post_context = final, !.sender_id = sid]
                  /\ pc' = "inbound"
                  /\ UNCHANGED <<last, idx>>
    /\ UNCHANGED <<businesses, secret, now, req, calls, status, nreq, nev, aicall, fncall, procs>>

\* The inbound row written twice
LogInbound_twice ==
    /\ pc = "inbound"
    /\ LET row == MessageLog(loc.business, NoCustomer, loc.sender_id, loc.message_text,
                             ReplyNone, "incoming", NoneVal, now, loc.ev)
       IN logs' = Append(Append(logs, row), row)
    /\ pc' = "customer"
    /\ UNCHANGED <<businesses, secret, customers, now, req, idx, loc, calls, last, status, nreq, nev, aicall, fncall, procs>>

\* The inbound row not written
LogInbound_skipped ==
    /\ pc = "inbound"
    /\ pc' = "customer"
    /\ UNCHANGED <<businesses, secret, customers, logs, now, req, idx, loc, calls, last, status, nreq, nev, aicall, fncall, procs>>

\* Lines 611-617: the inbound row
LogInbound ==
    /\ pc = "inbound"
    /\ logs' = Append(logs, MessageLog(loc.business, NoCustomer, loc.sender_id,
                                       loc.message_text, ReplyNone, "incoming",
                                       NoneVal, now, loc.ev))
    /\ pc' = "customer"
    /\ UNCHANGED <<businesses, secret, customers, now, req, idx, loc, calls, last, status, nreq, nev, aicall, fncall, procs>>

\* Lines 619-628: Customer.objects.get_or_create and the policy for unknown senders
ResolveCustomer ==
    /\ pc = "customer"
    /\ LET c == Customer("instagram", loc.sender_id, loc.business)
           created == c \notin customers
       IN /\ customers' = customers \cup {c}
          /\ IF created /\ ~businesses[loc.business].allow_auto_reply_from_unknown
             THEN EndEvent(loc, "blocked")
             ELSE /\ loc' = [loc EXCEPT !.customer = c]
                  /\ pc' = "ai"
                  /\ UNCHANGED <<last, idx>>
    /\ UNCHANGED <<businesses, secret, logs, now, req, calls, status, nreq, nev, aicall, fncall, procs>>

\* Lines 630-639: the enhanced message is handed to get_ai_response
GenerateReply ==
    /\ pc = "ai"
    /\ \E m \in PipelineModels :
         LET enhanced == enhance_message_with_post_context(loc.message_text,
                                                           loc.final_post_context)
             r == get_ai_response(businesses, logs, now, loc.business, enhanced,
                                  loc.sender_id, m)
         IN /\ loc' = [loc EXCEPT !.ai_response = r.text]
            /\ calls' = Append(calls, Call(loc.ev, "ai", loc.business, NoneVal,
                                           loc.sender_id, enhanced, r.text, NoneVal))
    /\ pc' = "send"
    /\ UNCHANGED <<businesses, secret, customers, logs, now, req, idx, last, status, nreq, nev, aicall, fncall, procs>>

\* The reply sent with the token of the first business that has one
SendReply_firsttoken ==
    /\ pc = "send"
    /\ \E o \in PipelineSends :
         LET r == send_instagram_text_reply(o)
             first == FirstWithToken(businesses, 1)
         IN /\ loc' = [loc EXCEPT !.send_result = r]
            /\ calls' = Append(calls, Call(loc.ev, "send", first,
                                           businesses[first].page_access_token,
                                           loc.sender_id, loc.ai_response, NoText, r.error))
    /\ pc' = "outgoing"
    /\ UNCHANGED <<businesses, secret, customers, logs, now, req, idx, last, status, nreq, nev, aicall, fncall, procs>>

\* Lines 641-646: send_instagram_text_reply
SendReply ==
    /\ pc = "send"
    /\ \E o \in PipelineSends :
         LET r == send_instagram_text_reply(o)
         IN /\ loc' = [loc EXCEPT !.send_result = r]
            /\ calls' = Append(calls, Call(loc.ev, "send", loc.business,
                                           businesses[loc.business].page_access_token,
                                           loc.sender_id, loc.ai_response, NoText, r.error))
    /\ pc' = "outgoing"
    /\ UNCHANGED <<businesses, secret, customers, logs, now, req, idx, last, status, nreq, nev, aicall, fncall, procs>>

\* The outgoing row without the error text of a failed send
OutgoingRow_noerror(l, t) ==
    MessageLog(l.business, l.customer, l.sender_id, NoText, ReplyText(l.ai_response),
               "outgoing", NoneVal, t, l.ev)

\* Lines 648-668: the outgoing row, with the error text when the send failed
OutgoingRow(l, t) ==
    MessageLog(l.business, l.customer, l.sender_id, NoText, ReplyText(l.ai_response),
               "outgoing",
               IF l.send_result.success THEN NoneVal ELSE l.send_result.error,
               t, l.ev)

LogOutgoing ==
    /\ pc = "outgoing"
    /\ logs' = Append(logs, OutgoingRow(loc, now))
    /\ EndEvent(loc, "replied")
    /\ UNCHANGED <<businesses, secret, customers, now, req, calls, status, nreq, nev, aicall, fncall, procs>>

\* Time passes between two requests (the clock starts with the first one)
Tick ==
    /\ pc = "idle"
    /\ 0 < nreq /\ nreq < MaxRequests
    /\ now + TickStep <= MaxTime
    /\ now' = now + TickStep
    /\ UNCHANGED <<businesses, secret, customers, logs, req, idx, pc, loc, calls, last, status, nreq, nev, aicall, fncall, procs>>

Next ==
    \/ Receive
    \/ Respond
    \/ Resolve
    \/ ExtractContext
    \/ StoreContext
    \/ LogInbound
    \/ ResolveCustomer
    \/ GenerateReply
    \/ SendReply
    \/ LogOutgoing

\* The pipeline at one clock reading
Spec == Init /\ [][Next]_vars

NextClock ==
    \/ Next
    \/ Tick

\* The pipeline with time passing between requests
SpecClock == Init /\ [][NextClock]_vars

-----------------------------------------------------------------------------
(* get_ai_response called on its own *)

\* b9 is the id of no Business
AiBusinessIds == {"b1", "b2", "b9"}

\* Messages: empty, blank, short ones, and texts of one-character tokens of
\* MAX_MESSAGE_LENGTH characters and of one and two more (the characters
\* past the limit differ from those before it)
AiMessages ==
    {<<>>, <<" ">>, <<"hi">>, <<"price?">>, <<" ", "price?", " ">>}
        \cup {[i \in 1..(MAX_MESSAGE_LENGTH + extra) |->
                  IF i > MAX_MESSAGE_LENGTH THEN "y" ELSE "x"] : extra \in 0..2}

AiModels ==
    {OpenAI(k, f, s, c) :
        k \in BOOLEAN,
        f \in {"raise", "text", "notext", "tool", "tool_badjson"},
        s \in {"raise", "text", "notext", "tool"},
        c \in {<<"r1">>, <<" ", "r2", " ">>, <<" ">>}}

\* Nothing has been received and no function has been called: the tables
\* are empty
InitAI ==
    /\ businesses = Config(TRUE, FALSE, FALSE)
    /\ secret = TRUE
    /\ customers = {}
    /\ logs = <<>>
    /\ now = 0
    /\ req = NoRequest
    /\ idx = 0
    /\ pc = "idle"
    /\ loc = LocInit
    /\ calls = <<>>
    /\ last = NoSummary
    /\ status = "none"
    /\ nreq = 0
    /\ nev = 0
    /\ aicall = NoAiCall
    /\ fncall = NoFnCall
    /\ procs = [p \in 1..MaxProcs |-> [pc |-> "idle", sender |-> NoSender,
                                      created |-> FALSE, conflict |-> FALSE]]

CallAI ==
    /\ aicall.pc = "ready"
    /\ \E bid \in AiBusinessIds, msg \in AiMessages, sender \in {NoSender, Id("u1")},
          m \in AiModels :
         aicall' = [pc |-> "returned", bid |-> bid, msg |-> msg, sender |-> sender, m |-> m,
                    result |-> get_ai_response(businesses, logs, now, bid, msg, sender, m)]
    /\ UNCHANGED <<businesses, secret, customers, logs, now, req, idx, pc, loc, calls, last, status, nreq, nev, fncall, procs>>

NextAI == CallAI

SpecAI == InitAI /\ [][NextAI]_vars

-----------------------------------------------------------------------------
(* Rows and calls of one event *)

RowsOf(ev) == {i \in 1..Len(logs) : logs[i].ev = ev}

\* The '[POST_CONTEXT_STORED]' rows of the context store
MarkerRowsOf(ev) == {i \in RowsOf(ev) : logs[i].incoming_text = StoredMarker}

\* The rows that log a message of the customer
InboundRowsOf(ev) ==
    {i \in RowsOf(ev) : logs[i].direction = "incoming" /\ logs[i].incoming_text # StoredMarker}

IncomingRowsOf(ev) == {i \in RowsOf(ev) : logs[i].direction = "incoming"}

OutgoingRowsOf(ev) == {i \in RowsOf(ev) : logs[i].direction = "outgoing"}

CallsOf(kind) == {i \in 1..Len(calls) : calls[i].kind = kind}

\* An event has just ended and the loop has not moved on
Ended == pc = "loop" /\ last.ev > 0

\* An event is being processed
InFlight == pc \in {"extract", "store", "inbound", "customer", "ai", "send", "outgoing"}

\* The event that has just ended left the tables as it found them and called nothing
NoEffect ==
    /\ Len(logs) = last.first
    /\ Cardinality(customers) = last.ncust
    /\ calls = <<>>

\* The business of page is active and linked to that page
OwnedByActive(page) ==
    page # NoneVal /\ \E b \in BizIds : businesses[b].active /\ businesses[b].page = page

-----------------------------------------------------------------------------
(* Properties of _handle_webhook_message and _process_messaging_event *)

C2_UnknownSenderGetsNoReply ==
    /\ (InFlight /\ OwnedByActive(loc.page) /\ ~loc.known
          /\ ~businesses[loc.business].allow_auto_reply_from_unknown) =>
          pc \notin {"ai", "send", "outgoing"}
    /\ (Ended /\ OwnedByActive(last.page) /\ last.has_text /\ ~last.known
          /\ ~businesses[last.business].allow_auto_reply_from_unknown) =>
          /\ Cardinality(InboundRowsOf(last.ev)) = 1
          /\ Cardinality(customers) = last.ncust + 1
          /\ OutgoingRowsOf(last.ev) = {}
          /\ CallsOf("ai") = {}
          /\ CallsOf("send") = {}

C4_InboundBeforeAiBeforeOutgoing ==
    /\ \A o \in 1..Len(logs) :
          logs[o].direction = "outgoing" =>
             \E i \in InboundRowsOf(logs[o].ev) : i < o
    /\ \A c \in CallsOf("ai") :
          /\ InboundRowsOf(calls[c].ev) # {}
          /\ pc \in {"ai", "send"} => OutgoingRowsOf(calls[c].ev) = {}
    /\ pc \in {"extract", "store", "inbound", "customer", "ai"} => OutgoingRowsOf(loc.ev) = {}
    /\ (Ended /\ OutgoingRowsOf(last.ev) # {}) => \E c \in CallsOf("ai") : calls[c].ev = last.ev

\* Processing is between the AI call and the outgoing row: the inbound row
\* of the event is there, its outgoing row is not
C4_Witness ==
    /\ pc = "outgoing"
    /\ InboundRowsOf(loc.ev) # {}
    /\ \E c \in CallsOf("ai") : calls[c].ev = loc.ev
    /\ OutgoingRowsOf(loc.ev) = {}

\* C5 as stated: once an event has passed the business and ai_enabled
\* checks, its inbound row is written before anything else is done for it
\* (caption fetch, context row, Customer row), and an event with text ends
\* with its inbound row
C5_InboundRowFirst ==
    /\ (InFlight /\ (\/ calls # <<>>
                     \/ MarkerRowsOf(loc.ev) # {}
                     \/ Cardinality(customers) > loc.ncust)) =>
          InboundRowsOf(loc.ev) # {}
    /\ (Ended /\ last.has_text) => InboundRowsOf(last.ev) # {}

\* C6: an event that has reached the reply step ends with exactly one
\* outgoing row; the row carries the text the AI engine returned, which is
\* the text handed to send_instagram_text_reply, and its error_message is
\* the error of the send: set iff the send failed
C6_OneOutgoingRowPerReply ==
    /\ pc \in {"ai", "send", "outgoing"} => OutgoingRowsOf(loc.ev) = {}
    /\ (Ended /\ (last.outcome = "replied" \/ CallsOf("ai") # {})) =>
          /\ last.outcome = "replied"
          /\ Cardinality(OutgoingRowsOf(last.ev)) = 1
          /\ Cardinality(CallsOf("ai")) = 1
          /\ Cardinality(CallsOf("send")) = 1
          /\ \A o \in OutgoingRowsOf(last.ev) :
             \A a \in CallsOf("ai") :
             \A c \in CallsOf("send") :
                /\ logs[o].reply_text = ReplyText(calls[a].reply)
                /\ calls[c].text = calls[a].reply
                /\ logs[o].error_message = calls[c].error
                /\ (logs[o].error_message # NoneVal) <=> (calls[c].error # NoneVal)

\* The send of an answered event failed and its outgoing row says so
C6_Witness ==
    /\ Ended /\ last.outcome = "replied"
    /\ \E o \in OutgoingRowsOf(last.ev) : logs[o].error_message = "Instagram API Error"
    /\ \E c \in CallsOf("send") : calls[c].error = "Instagram API Error"

\* C7: a step in which an event raises returns to the loop at the next
\* event and leaves the response open; events are taken in payload order,
\* one position at a time; the loop is left only past the last event, with 200
C7_FailureDoesNotStopTheLoop ==
    [][/\ (nev' # nev /\ last'.outcome = "raised") =>
             /\ pc' = "loop"
             /\ idx' = idx + 1
             /\ status' = status
             /\ req'.payload = req.payload
       /\ (nev' # nev) =>
             /\ idx <= Len(req.payload)
             /\ IF pc' = "loop"
                THEN last'.page = req.payload[idx] /\ last'.idx = idx
                ELSE loc'.page = req.payload[idx] /\ idx' = idx
       /\ (pc # "idle" /\ pc' # "idle") => idx' \in {idx, idx + 1}
       /\ (pc # "idle" /\ pc' = "idle") =>
             /\ idx > Len(req.payload)
             /\ status' = "200"]_vars

\* The first event of a payload raised and the second one was answered
C7_Witness ==
    /\ pc = "loop" /\ req.failed
    /\ last.idx = 2 /\ last.outcome = "replied"
    /\ OutgoingRowsOf(last.ev) # {}

\* C8 as stated: an event of an entry whose page id is not the
\* instagram_page_id of an active Business (an entry without id included)
\* is not processed: no row, no customer, no external call
C8_UnmatchedPageSkipped ==
    /\ InFlight => OwnedByActive(loc.page)
    /\ (Ended /\ ~OwnedByActive(last.page)) => NoEffect

\* C9: an event addressed to an active Business with ai_enabled false goes
\* no further than the check: no row, no customer, no external call
C9_AiDisabledSkipped ==
    /\ InFlight => businesses[loc.business].ai_enabled
    /\ (Ended /\ last.business # NoneVal /\ ~businesses[last.business].ai_enabled) =>
          /\ last.outcome = "ai_disabled"
          /\ NoEffect

\* An event for the business with AI switched off was skipped when the
\* tables already held rows of an earlier event
C9_Witness ==
    /\ Ended /\ last.outcome = "ai_disabled"
    /\ last.business = "b3" /\ last.first > 0
    /\ NoEffect

-----------------------------------------------------------------------------
(* Properties of get_ai_response *)

\* The call got as far as the model-call step
ReachesModel ==
    /\ Strip(aicall.msg) # <<>>
    /\ aicall.bid \in DOMAIN businesses
    /\ businesses[aicall.bid].active

\* The model-call step fails: no API key, a completion that raises (network
\* error, timeout), tool arguments that are no JSON, a completion without text
ModelStepFails(m) ==
    \/ ~m.key
    \/ m.first \in {"raise", "notext", "tool_badjson"}
    \/ m.first = "tool" /\ m.second \in {"raise", "notext"}

\* C10: get_ai_response never raises, and when the model-call step fails it
\* returns the sentence of _get_fallback_response
C10_FallbackOnModelFailure ==
    aicall.pc = "returned" =>
        /\ ~aicall.result.raised
        /\ (ReachesModel /\ ModelStepFails(aicall.m)) =>
              aicall.result.text = get_fallback_response

\* The model asked for a tool with arguments that are no JSON and the
\* caller got the fallback sentence
C10_Witness ==
    /\ aicall.pc = "returned"
    /\ ReachesModel
    /\ aicall.m.key /\ aicall.m.first = "tool_badjson"
    /\ aicall.result.text = get_fallback_response

\* The call names a business that does not exist or is inactive
BusinessUnavailable ==
    ~(aicall.bid \in DOMAIN businesses /\ businesses[aicall.bid].active)

C12_OneToolRoundTrip ==
    aicall.pc = "returned" =>
        /\ aicall.result.model_calls <= 2
        /\ aicall.result.tool_runs <= 1
        /\ aicall.result.tool_runs = 1 =>
              /\ aicall.m.first = "tool"
              /\ aicall.result.model_calls = 2
        /\ (ReachesModel /\ aicall.m.key) =>
              /\ aicall.result.model_calls = Len(CompletionRequests(aicall.m))
              /\ CompletionRequests(aicall.m)[1].functions
              /\ \A i \in 2..Len(CompletionRequests(aicall.m)) :
                    ~CompletionRequests(aicall.m)[i].functions
        /\ (ReachesModel /\ aicall.m.key /\ aicall.m.first = "tool") =>
              /\ aicall.result.tool_runs = 1
              /\ aicall.result.model_calls = 2
              /\ aicall.m.second = "text" => aicall.result.text = Strip(aicall.m.content)
              /\ aicall.m.second = "tool" => aicall.result.text = get_fallback_response

\* The first completion asked for a tool and the text of the second one
\* was returned
C12_Witness ==
    /\ aicall.pc = "returned"
    /\ ReachesModel
    /\ aicall.m.key /\ aicall.m.first = "tool" /\ aicall.m.second = "text"
    /\ aicall.result.model_calls = 2
    /\ aicall.result.tool_runs = 1
    /\ aicall.result.text = <<"r1">>

-----------------------------------------------------------------------------
(* Properties of the post context of a conversation *)

\* The '[POST_CONTEXT_STORED]' rows of (business, sender)
MarkerRows(biz, sender) ==
    {i \in 1..Len(logs) : /\ logs[i].business = biz
                          /\ logs[i].sender_id = sender
                          /\ logs[i].incoming_text = StoredMarker}

\* The largest element of a non-empty set of row numbers
MaxRow(S) == CHOOSE i \in S : \A k \in S : k <= i

\* The AI engine has just been called for an event whose sender id is a
\* platform id other than the page's own
RealSenderAnswered ==
    /\ pc = "send"
    /\ loc.sender_id[1] = "id"
    /\ loc.sender_id # Id(loc.page)

\* C13: the message handed to the AI engine for an event of sender S and
\* business B is enhanced with the event's own post context when it yields
\* one, and otherwise with the context most recently stored for (B, S) when
\* that store is at most 10 minutes old
C13_StoredContextMerged ==
    RealSenderAnswered =>
        LET mine == MarkerRows(loc.business, loc.sender_id)
        IN \A c \in CallsOf("ai") :
              IF loc.post_context # NoCtx
              THEN calls[c].text =
                      enhance_message_with_post_context(loc.message_text, loc.post_context)
              ELSE (mine # {} /\ logs[MaxRow(mine)].created_at >= now - ContextWindow) =>
                      /\ calls[c].text =
                            enhance_message_with_post_context(
                               loc.message_text, json_loads(logs[MaxRow(mine)].reply_text.json))
                      /\ calls[c].text # loc.message_text

\* Six minutes after an event with a media id, an event of the same sender
\* without post context was handed to the AI engine with the stored media id
C13_Witness ==
    /\ RealSenderAnswered
    /\ now = 6
    /\ loc.post_context = NoCtx
    /\ \E i \in MarkerRows(loc.business, loc.sender_id) :
          logs[i].created_at = 0 /\ logs[i].ev < loc.ev
    /\ \E c \in CallsOf("ai") :
          calls[c].text = <<"hi", "[This message is a reply to media ID:", "m1",
                            "[Please consider that this message is a reply to a post.]">>

-----------------------------------------------------------------------------
(* _store_post_context_in_conversation and _get_stored_post_context called *)
(* on their own                                                            *)

MaxStores == 3

StoreBusinessIds == {"b1", "b3"}

\* Sender ids handed to the two functions: platform ids and None
StoreSenders == {Id("u1"), Id("u2"), NoSender}

\* Post contexts as _extract_post_context returns them
StoreContexts ==
    {extract_post_context(md, cap, NoneVal) :
        md \in {MessageData(NoText, "m1", NoneVal, NoShare, NoneVal, NoneVal),
                MessageData(NoText, NoneVal, NoneVal, <<"post", "po1">>, NoneVal, NoneVal),
                MessageData(NoText, NoneVal, NoneVal, NoShare, "s1", NoneVal)},
        cap \in CaptionResults}

\* One call of _store_post_context_in_conversation: its arguments and the
\* clock reading
StoreCall(biz, sender, ctx, t) ==
    [kind |-> "store", biz |-> biz, target |-> sender, ctx |-> ctx, at |-> t]

\* _store_post_context_in_conversation(business, sender_id, post_context)
StoreOnce ==
    /\ Len(calls) < MaxStores
    /\ \E b \in StoreBusinessIds, s \in StoreSenders, ctx \in StoreContexts :
          /\ customers' = StoreCustomers(customers, b, s)
          /\ logs' = StoreLogs(logs, b, s, ctx, now, 0)
          /\ calls' = Append(calls, StoreCall(b, s, ctx, now))
    /\ UNCHANGED <<businesses, secret, now, req, idx, pc, loc, last, status, nreq, nev, aicall, fncall, procs>>

\* Time passes between two calls
TickStore ==
    /\ now + TickStep <= MaxTime
    /\ now' = now + TickStep
    /\ UNCHANGED <<businesses, secret, customers, logs, req, idx, pc, loc, calls, last, status, nreq, nev, aicall, fncall, procs>>

NextStore ==
    \/ StoreOnce
    \/ TickStore

SpecStore == InitAI /\ [][NextStore]_vars

\* The calls of _store_post_context_in_conversation for (business, sender)
StoresOf(biz, sender) ==
    {i \in 1..Len(calls) : calls[i].biz = biz /\ calls[i].target = sender}

\* C14 as stated: _get_stored_post_context(B, S) returns the context of the
\* latest _store_post_context_in_conversation(B, S, ctx) when that call is
\* at most 10 minutes old, and nothing when it is older or there is none
C14_StoreThenGet ==
    \A b \in StoreBusinessIds, s \in StoreSenders :
        LET st == StoresOf(b, s)
            got == get_stored_post_context(logs, b, s, now)
        IN IF st # {} /\ calls[MaxRow(st)].at >= now - ContextWindow
           THEN got = calls[MaxRow(st)].ctx
           ELSE got = NoCtx

\* C15 as stated: the context row of an event is stored under the business
\* and sender id under which the event's inbound row is logged, and a
\* context merged into an event that yields none comes from a row stored
\* under the business and sender id of that event's rows
C15_ContextKeyedAsLogged ==
    /\ \A m \in 1..Len(logs) :
       \A i \in 1..Len(logs) :
          (/\ logs[m].incoming_text = StoredMarker
           /\ logs[i].ev = logs[m].ev
           /\ logs[i].direction = "incoming"
           /\ logs[i].incoming_text # StoredMarker) =>
              /\ logs[i].business = logs[m].business
              /\ logs[i].sender_id = logs[m].sender_id
    /\ (/\ pc \in {"inbound", "customer", "ai", "send", "outgoing"}
        /\ loc.post_context = NoCtx
        /\ loc.final_post_context # NoCtx) =>
          \E m \in MarkerRows(loc.business, loc.sender_id) :
             json_loads(logs[m].reply_text.json) = loc.final_post_context

-----------------------------------------------------------------------------
(* core/views.py: _handle_webhook_verification *)

\* _handle_webhook_verification: mode, token and challenge are the GET
\* parameters hub.mode, hub.verify_token and hub.challenge (NoneVal: the
\* parameter is absent), configured is os.getenv('FB_VERIFY_TOKEN')
\* (NoneVal: the variable is not set).  None == None is true in Python.
handle_webhook_verification(mode, token, challenge, configured) ==
    IF mode = "subscribe" /\ token = configured
    THEN [status |-> "200", body |-> challenge]
    ELSE [status |-> "403", body |-> "Verification failed"]

VerifyModes == {NoneVal, "subscribe", "unsubscribe"}

VerifyTokens == {NoneVal, "", "tok", "bad"}

VerifyChallenges == {NoneVal, "c1", "c2", "c3"}

VerifyConfigured == {NoneVal, "", "tok"}

\* A GET request reaches _handle_webhook_verification
CallVerify ==
    /\ fncall.pc = "ready"
    /\ \E mode \in VerifyModes, token \in VerifyTokens,
          challenge \in VerifyChallenges, configured \in VerifyConfigured :
          fncall' = [pc |-> "returned", name |-> "_handle_webhook_verification",
                     args |-> [mode |-> mode, token |-> token, challenge |-> challenge,
                               configured |-> configured],
                     result |-> handle_webhook_verification(mode, token, challenge,
                                                            configured)]
    /\ UNCHANGED <<businesses, secret, customers, logs, now, req, idx, pc, loc, calls, last, status, nreq, nev, aicall, procs>>

SpecVerify == InitAI /\ [][CallVerify]_vars

\* C16 as stated: the challenge is echoed iff hub.mode is 'subscribe' and
\* hub.verify_token equals the configured verify token; a wrong mode, a wrong
\* token, a request without token and an unset FB_VERIFY_TOKEN all give 403
C16_ChallengeOnlyWithToken ==
    (fncall.pc = "returned" /\ fncall.name = "_handle_webhook_verification") =>
        LET a == fncall.args
            r == fncall.result
            accepted == /\ a.mode = "subscribe"
                        /\ a.configured # NoneVal
                        /\ a.token # NoneVal
                        /\ a.token = a.configured
        IN IF accepted
           THEN r.status = "200" /\ r.body = a.challenge
           ELSE r.status = "403"

-----------------------------------------------------------------------------
(* Properties of the entry of _handle_webhook_message *)

\* C17: a POST whose signature is accepted (or not checked, no app secret
\* being configured) and whose body is no JSON is answered 400, and the
\* step that receives it enters no event and changes no row, no customer
\* and no external call
C17_MalformedJsonRejected ==
    [][(/\ nreq' # nreq
        /\ req'.body = "malformed"
        /\ (~secret \/ req'.sig_matches)) =>
          /\ status' = "400"
          /\ pc' = "idle"
          /\ UNCHANGED <<logs, customers, calls, loc, nev>>]_vars

\* After a request that left rows, a POST with a good signature and a body
\* that is no JSON was answered 400
C17_Witness ==
    /\ secret /\ req.sig_matches /\ req.body = "malformed"
    /\ status = "400" /\ pc = "idle"
    /\ nreq = 2 /\ Len(logs) > 0

\* C18 as stated: the fallback sender id under which an event of a page
\* without usable sender id is logged differs from the sender id of the inbound row
\* of every other event, whether that one is a platform id or another
\* fallback id synthesized at the same clock reading
C18_FallbackIdsUnique ==
    \A i \in 1..Len(logs) :
    \A j \in 1..Len(logs) :
       (/\ logs[i].ev # logs[j].ev
        /\ logs[i].incoming_text # StoredMarker /\ logs[i].direction = "incoming"
        /\ logs[j].incoming_text # StoredMarker /\ logs[j].direction = "incoming"
        /\ logs[i].sender_id[1] = "user"
        /\ logs[i].sender_id[2] # NoneVal) =>
           logs[i].sender_id # logs[j].sender_id

-----------------------------------------------------------------------------
(* core/models.py: Product, Category; core/ai_chat.py: catalog functions *)

\* Texts of the catalog are sequences of characters.  Characters in the
\* order of their code points: the blank, then upper case, then lower case.
Chars == <<" ", "A", "B", "a", "b">>

\* str.lower()
LowerStr(s) ==
    [i \in 1..Len(s) |-> IF s[i] = "A" THEN "a" ELSE IF s[i] = "B" THEN "b" ELSE s[i]]

\* The lookup field__icontains=t: t occurs in s, case aside (the empty text
\* occurs in every text)
icontains(s, t) ==
    \E i \in 0..(Len(s) - Len(t)) :
        SubSeq(LowerStr(s), i + 1, i + Len(t)) = LowerStr(t)

\* s sorts before t in ORDER BY of a binary collation
RECURSIVE StrLess(_, _)
StrLess(s, t) ==
    IF t = <<>> THEN FALSE
    ELSE IF s = <<>> THEN TRUE
    ELSE IF Head(s) # Head(t)
         THEN (CHOOSE i \in 1..Len(Chars) : Chars[i] = Head(s))
                 < (CHOOSE i \in 1..Len(Chars) : Chars[i] = Head(t))
    ELSE StrLess(Tail(s), Tail(t))

\* Product.category of a product filed under no category (NULL)
NoCategory == 0

\* models.py Product (pk, business, category, name, description, active, stock)
Product(pk, biz, cat, name, desc, active, stock) ==
    [pk |-> pk, business |-> biz, category |-> cat, name |-> name,
     description |-> desc, active |-> active, stock |-> stock]

\* models.py Category (pk, name, business, is_global); business NoneVal is NULL
Category(pk, name, biz, global) ==
    [pk |-> pk, name |-> name, business |-> biz, is_global |-> global]

\* QuerySet.order_by('name') of a set of rows.  Rows of equal name come in an
\* order the database is free to choose: tie is "asc" (by pk) or "desc"
RECURSIVE OrderByName(_, _)
OrderByName(rows, tie) ==
    IF rows = {} THEN <<>>
    ELSE LET m == CHOOSE x \in rows : \A y \in rows \ {x} :
                     \/ StrLess(x.name, y.name)
                     \/ x.name = y.name
                        /\ (IF tie = "asc" THEN x.pk < y.pk ELSE x.pk > y.pk)
         IN <<m>> \o OrderByName(rows \ {m}, tie)

\* The dict of a product with its stock count in it
SearchRecord_counted(cat, p) ==
    [pk |-> p.pk, name |-> p.name,
     category |-> IF \E c \in cat.categories : c.pk = p.category
                  THEN (CHOOSE c \in cat.categories : c.pk = p.category).name
                  ELSE NoneVal,
     available |-> p.stock > 0, stock |-> p.stock]

\* The dict of lines 463-470 for one product (pk: the row it was made from);
\* category is product.category.name if product.category else None
SearchRecord(cat, p) ==
    [pk |-> p.pk, name |-> p.name,
     category |-> IF \E c \in cat.categories : c.pk = p.category
                  THEN (CHOOSE c \in cat.categories : c.pk = p.category).name
                  ELSE NoneVal,
     available |-> p.stock > 0]

\* _search_products_data without the slice of line 459
search_products_data_unsliced(cat, biz, term, tie) ==
    LET rows == {p \in cat.products :
                    /\ p.business = biz
                    /\ p.active
                    /\ (icontains(p.name, term) \/ icontains(p.description, term))}
        sorted == OrderByName(rows, tie)
    IN [search_term |-> term,
        products |-> [i \in 1..Len(sorted) |-> SearchRecord(cat, sorted[i])],
        total_found |-> Len(sorted)]

\* _search_products_data: the active products of the business whose name or
\* description contains the term, by name, the first 10 of them
search_products_data(cat, biz, term, tie) ==
    LET rows == {p \in cat.products :
                    /\ p.business = biz
                    /\ p.active
                    /\ (icontains(p.name, term) \/ icontains(p.description, term))}
        found == FirstN(OrderByName(rows, tie), 10)
    IN [search_term |-> term,
        products |-> [i \in 1..Len(found) |-> SearchRecord(cat, found[i])],
        total_found |-> Len(found)]

\* The dict of lines 405-413 for one product (pk: the row it was made from)
CategoryProductRecord(p) ==
    [pk |-> p.pk, name |-> p.name, description |-> p.description,
     available |-> p.stock > 0]

\* _get_products_by_category_data with the name compared as it is written
get_products_by_category_data_exact(cat, biz, category_name, tie) ==
    LET cs == {c \in cat.categories : c.business = biz /\ c.name = category_name}
    IN IF cs = {} THEN [error |-> <<"Category not found", category_name>>]
       ELSE LET category == CHOOSE c \in cs :
                                \A d \in cs \ {c} : StrLess(c.name, d.name)
                products == OrderByName({p \in cat.products :
                                            p.category = category.pk /\ p.active}, tie)
            IN [category |-> category.name,
                products |-> [i \in 1..Len(products) |->
                                 CategoryProductRecord(products[i])],
                total_products |-> Len(products)]

\* _get_products_by_category_data: the first category of the business whose
\* name contains category_name (Meta.ordering is ['name'] and (name,
\* business) is unique, so .first() is the one of least name), and its
\* active products by name; a dict with the key "error" when there is no
\* such category
get_products_by_category_data(cat, biz, category_name, tie) ==
    LET cs == {c \in cat.categories :
                  c.business = biz /\ icontains(c.name, category_name)}
    IN IF cs = {} THEN [error |-> <<"Category not found", category_name>>]
       ELSE LET category == CHOOSE c \in cs :
                                \A d \in cs \ {c} : StrLess(c.name, d.name)
                products == OrderByName({p \in cat.products :
                                            p.category = category.pk /\ p.active}, tie)
            IN [category |-> category.name,
                products |-> [i \in 1..Len(products) |->
                                 CategoryProductRecord(products[i])],
                total_products |-> Len(products)]

\* str.split() and re.findall(r'\b\w+\b', s) of a text of letters and
\* blanks: its maximal runs of letters
RECURSIVE Words(_)
Words(s) ==
    IF s = <<>> THEN <<>>
    ELSE IF Head(s) = " " THEN Words(Tail(s))
    ELSE LET n == IF \E i \in 1..Len(s) : s[i] = " "
                  THEN (CHOOSE i \in 1..Len(s) :
                            s[i] = " " /\ \A j \in 1..(i - 1) : s[j] # " ") - 1
                  ELSE Len(s)
         IN <<SubSeq(s, 1, n)>> \o Words(SubSeq(s, n + 1, Len(s)))

\* A QuerySet without order_by of a model without Meta.ordering: the rows in
\* an order the database chooses, here by pk ascending or descending
InDbOrder(rows, ord) ==
    [i \in 1..Cardinality(rows) |->
        CHOOSE r \in rows :
            Cardinality({q \in rows : IF ord = "asc" THEN q.pk < r.pk
                                      ELSE q.pk > r.pk}) = i - 1]

\* Lines 540-562: for each word of the caption longer than 3 characters, the
\* first 3 active products of the business whose name or description
\* contains it, each with the word as match_reason, appended to one list
RECURSIVE KeywordMatches(_, _, _, _)
KeywordMatches(cat, biz, words, ord) ==
    IF words = <<>> THEN <<>>
    ELSE LET word == Head(words)
             word_products ==
                 FirstN(InDbOrder({p \in cat.products :
                                      /\ p.business = biz
                                      /\ p.active
                                      /\ (icontains(p.name, word)
                                          \/ icontains(p.description, word))}, ord), 3)
         IN (IF Len(word) > 3
             THEN [i \in 1..Len(word_products) |->
                      SearchRecord(cat, word_products[i])
                          @@ [description |-> word_products[i].description,
                              match_reason |-> word]]
             ELSE <<>>)
            \o KeywordMatches(cat, biz, Tail(words), ord)

\* _identify_product_from_post_context that gives up when phase 1 finds
\* nothing
identify_product_from_post_context_direct(cat, biz, post_caption, user_message, ord) ==
    LET caption_lower == LowerStr(post_caption)
        products == InDbOrder({p \in cat.products : p.business = biz /\ p.active}, ord)
        NameInCaption(p) ==
            \/ icontains(caption_lower, LowerStr(p.name))
            \/ \E i \in 1..Len(Words(LowerStr(p.name))) :
                  /\ Len(Words(LowerStr(p.name))[i]) > 3
                  /\ icontains(caption_lower, Words(LowerStr(p.name))[i])
        matching_products == SelectSeq(products, NameInCaption)
    IN IF matching_products # <<>>
       THEN [found |-> TRUE,
             products |-> [i \in 1..Len(matching_products) |->
                              SearchRecord(cat, matching_products[i])
                                  @@ [description |-> matching_products[i].description]],
             post_caption |-> post_caption, user_message |-> user_message,
             message |-> <<"mentioned in the post caption", Len(matching_products)>>]
       ELSE [found |-> FALSE,
             post_caption |-> post_caption, user_message |-> user_message,
             message |-> <<"Please specify the product name">>]

\* _identify_product_from_post_context.  Phase 1 (lines 508-537): the active
\* products of the business whose lower-cased name, or a word of it longer
\* than 3 characters, occurs in the lower-cased caption.  Phase 2 (538-577),
\* when phase 1 found none: the first 5 of the keyword matches.
identify_product_from_post_context(cat, biz, post_caption, user_message, ord) ==
    LET caption_lower == LowerStr(post_caption)
        products == InDbOrder({p \in cat.products : p.business = biz /\ p.active}, ord)
        NameInCaption(p) ==
            \/ icontains(caption_lower, LowerStr(p.name))
            \/ \E i \in 1..Len(Words(LowerStr(p.name))) :
                  /\ Len(Words(LowerStr(p.name))[i]) > 3
                  /\ icontains(caption_lower, Words(LowerStr(p.name))[i])
        matching_products == SelectSeq(products, NameInCaption)
        keyword_matches == KeywordMatches(cat, biz, Words(caption_lower), ord)
    IN IF matching_products # <<>>
       THEN [found |-> TRUE,
             products |-> [i \in 1..Len(matching_products) |->
                              SearchRecord(cat, matching_products[i])
                                  @@ [description |-> matching_products[i].description]],
             post_caption |-> post_caption, user_message |-> user_message,
             message |-> <<"mentioned in the post caption", Len(matching_products)>>]
       ELSE IF keyword_matches # <<>>
       THEN [found |-> TRUE,
             products |-> FirstN(keyword_matches, 5),
             post_caption |-> post_caption, user_message |-> user_message,
             message |-> <<"matching keywords", Len(keyword_matches)>>]
       ELSE [found |-> FALSE,
             post_caption |-> post_caption, user_message |-> user_message,
             message |-> <<"Please specify the product name">>]

\* _get_categories_data: the categories of business.categories by name, each
\* with the number of active products filed under it
get_categories_data(cat, biz, tie) ==
    LET categories == OrderByName({c \in cat.categories : c.business = biz}, tie)
    IN [categories |-> [i \in 1..Len(categories) |->
                           [name |-> categories[i].name,
                            product_count |->
                                Cardinality({p \in cat.products :
                                                p.category = categories[i].pk /\ p.active}),
                            is_global |-> categories[i].is_global]],
        total_categories |-> Len(categories)]

\* _get_product_details_data: the first active product of the business whose
\* name contains product_name (.first() of an unordered QuerySet orders by
\* pk); a dict with the key "error" when there is none
get_product_details_data(cat, biz, product_name) ==
    LET rows == {p \in cat.products :
                    p.business = biz /\ p.active /\ icontains(p.name, product_name)}
    IN IF rows = {} THEN [error |-> <<"Product not found", product_name>>]
       ELSE LET product == CHOOSE p \in rows : \A q \in rows : p.pk <= q.pk
            IN SearchRecord(cat, product) @@ [description |-> product.description]

\* A menu of five functions
functions_five ==
    {"get_categories", "get_products_by_category", "get_product_details",
     "search_products", "identify_product_from_post_context"}

\* The names of the list functions of lines 194-278, which the first request
\* carries (line 286)
functions ==
    {"get_categories", "get_products_by_category", "get_product_details",
     "search_products", "handle_yes_response", "identify_product_from_post_context"}

\* _execute_function without its try/except.  function_args is a JSON value
\* that is a dict (kv) or is not one.
execute_function_unguarded(biz, cat, function_name, function_args, business_id, tie) ==
    LET Get(key) == IF key \in DOMAIN function_args.kv
                    THEN function_args.kv[key] ELSE <<>>
    IN IF business_id \notin DOMAIN biz \/ ~biz[business_id].active
       THEN [raised |-> "Business.DoesNotExist"]
       ELSE IF function_name = "get_categories"
       THEN get_categories_data(cat, business_id, tie)
       ELSE IF function_name \notin {"get_products_by_category", "get_product_details",
                                     "search_products", "handle_yes_response",
                                     "identify_product_from_post_context"}
       THEN [error |-> <<"Unknown function", function_name>>]
       ELSE IF ~function_args.dict
       THEN [raised |-> "AttributeError"]
       ELSE IF function_name \in {"get_products_by_category", "handle_yes_response"}
       THEN get_products_by_category_data(cat, business_id, Get("category_name"), tie)
       ELSE IF function_name = "get_product_details"
       THEN get_product_details_data(cat, business_id, Get("product_name"))
       ELSE IF function_name = "search_products"
       THEN search_products_data(cat, business_id, Get("search_term"), tie)
       ELSE identify_product_from_post_context(
                cat, business_id, Get("post_caption"), Get("user_message"), tie)

\* _execute_function: the Business of the id, if active; the function of the
\* name on the arguments read with .get(key, ""); whatever is raised on the
\* way becomes {"error": str(e)}
execute_function(biz, cat, function_name, function_args, business_id, tie) ==
    LET Get(key) == IF key \in DOMAIN function_args.kv
                    THEN function_args.kv[key] ELSE <<>>
        outcome ==
            IF business_id \notin DOMAIN biz \/ ~biz[business_id].active
            THEN [raised |-> "Business.DoesNotExist"]
            ELSE IF function_name = "get_categories"
            THEN get_categories_data(cat, business_id, tie)
            ELSE IF function_name \notin {"get_products_by_category", "get_product_details",
                                          "search_products", "handle_yes_response",
                                          "identify_product_from_post_context"}
            THEN [error |-> <<"Unknown function", function_name>>]
            ELSE IF ~function_args.dict
            THEN [raised |-> "AttributeError"]
            ELSE IF function_name \in {"get_products_by_category", "handle_yes_response"}
            THEN get_products_by_category_data(cat, business_id, Get("category_name"), tie)
            ELSE IF function_name = "get_product_details"
            THEN get_product_details_data(cat, business_id, Get("product_name"))
            ELSE IF function_name = "search_products"
            THEN search_products_data(cat, business_id, Get("search_term"), tie)
            ELSE identify_product_from_post_context(
                     cat, business_id, Get("post_caption"), Get("user_message"), tie)
    IN IF "raised" \in DOMAIN outcome THEN [error |-> <<outcome.raised>>] ELSE outcome

\* Catalogs the functions are called on: eight products of b1 that are
\* always there or never, and any choice among seven more rows (three more
\* active products of b1, an inactive one, one of another business filed
\* under a category of b1, one that matches by description only, one whose
\* name another product has too)
BaseProducts ==
    {Product(1, "b1", 1, <<"b", "a">>, <<>>, TRUE, 3),
     Product(2, "b1", 1, <<"a", "A">>, <<>>, TRUE, 0),
     Product(3, "b1", 1, <<"A", "b">>, <<>>, TRUE, 1),
     Product(4, "b1", 1, <<"B", "A">>, <<>>, TRUE, 2),
     Product(5, "b1", 1, <<"a", "b">>, <<>>, TRUE, 5),
     Product(6, "b1", 1, <<"A", "A">>, <<>>, TRUE, 1),
     Product(7, "b1", 1, <<"B", "a">>, <<>>, TRUE, 1),
     Product(8, "b1", 1, <<"a", "a">>, <<>>, TRUE, 1)}

ExtraProducts ==
    {Product(9, "b1", 2, <<"b", "A">>, <<>>, TRUE, 1),
     Product(10, "b1", 2, <<"a", "B">>, <<>>, TRUE, 1),
     Product(11, "b1", NoCategory, <<"A", "B">>, <<>>, TRUE, 1),
     Product(12, "b1", 1, <<"A", "a">>, <<>>, FALSE, 4),
     Product(13, "b3", 1, <<"a", "a">>, <<>>, TRUE, 1),
     Product(14, "b1", 1, <<"b", "b">>, <<"b", "A">>, TRUE, 1),
     Product(15, "b1", 2, <<"a", "a">>, <<>>, TRUE, 0)}

\* Categories: two of b1 (the name of the second contains the name of the
\* first, case aside), one of b3 and a global one
CategoryPool ==
    {Category(1, <<"A", "b">>, "b1", FALSE),
     Category(2, <<"B", "a", "b">>, "b1", FALSE),
     Category(3, <<"a", "b">>, "b3", FALSE),
     Category(4, <<"a", "b">>, NoneVal, TRUE)}

\* on_delete=SET_NULL: a product refers to a category that exists, or to none
Catalog(products, categories) ==
    [products |-> {[p EXCEPT !.category =
                        IF \E c \in categories : c.pk = p.category THEN p.category
                        ELSE NoCategory] : p \in products},
     categories |-> categories]

Catalogs ==
    {Catalog(base \cup extra, cs) :
        base \in {{}, BaseProducts}, extra \in SUBSET ExtraProducts,
        cs \in SUBSET CategoryPool}

\* Texts the model may pass as search_term or category_name
Terms ==
    {<<>>, <<"a">>, <<"a", "B">>, <<"B", "B">>, <<"b", "a", "b">>, <<"a", "b", "a">>}

\* _search_products_data(business, search_term) on its own
CallSearch ==
    /\ fncall.pc = "ready"
    /\ \E cat \in Catalogs, biz \in {"b1", "b3"}, term \in Terms,
          tie \in {"asc", "desc"} :
          fncall' = [pc |-> "returned", name |-> "search_products",
                     args |-> [catalog |-> cat, business |-> biz, term |-> term],
                     result |-> search_products_data(cat, biz, term, tie)]
    /\ UNCHANGED <<businesses, secret, customers, logs, now, req, idx, pc, loc, calls, last, status, nreq, nev, aicall, procs>>

\* _get_products_by_category_data(business, category_name) on its own
CallProductsByCategory ==
    /\ fncall.pc = "ready"
    /\ \E cat \in Catalogs, biz \in {"b1", "b3"}, term \in Terms,
          tie \in {"asc", "desc"} :
          fncall' = [pc |-> "returned", name |-> "get_products_by_category",
                     args |-> [catalog |-> cat, business |-> biz, term |-> term],
                     result |-> get_products_by_category_data(cat, biz, term, tie)]
    /\ UNCHANGED <<businesses, secret, customers, logs, now, req, idx, pc, loc, calls, last, status, nreq, nev, aicall, procs>>

\* Products with names long enough to hold a keyword: some contain two
\* keywords of a caption, one matches by description only, one is inactive,
\* one is of another business
PostProducts ==
    {Product(21, "b1", 1, <<"a", "b", "a", "b", "a">>, <<>>, TRUE, 2),
     Product(22, "b1", 1, <<"B", "a", "b", "a", "b">>, <<>>, TRUE, 0),
     Product(23, "b1", 2, <<"b", "b">>, <<"a", "b", "a", "b">>, TRUE, 1),
     Product(24, "b1", 2, <<"A", "b", "a", "b">>, <<>>, TRUE, 1),
     Product(25, "b1", 1, <<"a", "a", "b", "a", "b">>, <<"b", "a", "b", "a">>, FALSE, 1),
     Product(26, "b3", 1, <<"a", "b", "a", "b", "b">>, <<>>, TRUE, 1),
     Product(27, "b1", NoCategory, <<"b", "b", "b", "b", " ", "a">>, <<>>, TRUE, 1),
     Product(28, "b1", 1, <<"a", "b", "b", "a", "b", "a">>, <<"a", "b", "a", "b">>, TRUE, 3),
     Product(29, "b1", 1, <<"b", "a", "b", "a", "a">>, <<>>, TRUE, 1)}

\* _identify_product_from_post_context(business, post_caption, user_message)
\* on its own
CallIdentify ==
    /\ fncall.pc = "ready"
    /\ \E ps \in SUBSET PostProducts, biz \in {"b1", "b3"}, ord \in {"asc", "desc"},
          caption \in {<<>>,
                       <<"a", "b", " ", "b", "a">>,
                       <<"A", "b", "a", "b">>,
                       <<"a", "b", "a", "b", " ", "B", "A", "B", "A">>,
                       <<"b", "a", "b", "a", " ", "b", "a", "b", "a">>,
                       <<"b", "b", "b", "b", " ", "b", "b">>} :
          fncall' = [pc |-> "returned", name |-> "identify_product_from_post_context",
                     args |-> [catalog |-> Catalog(ps, CategoryPool), business |-> biz,
                               term |-> caption],
                     result |-> identify_product_from_post_context(
                                    Catalog(ps, CategoryPool), biz, caption, <<"a">>, ord)]
    /\ UNCHANGED <<businesses, secret, customers, logs, now, req, idx, pc, loc, calls, last, status, nreq, nev, aicall, procs>>

\* _execute_function(function_name, function_args, business_id) on its own:
\* any of the six names of the menu or another one; arguments that are no
\* dict, an empty dict, or a dict with the keys of one function; the id of an
\* active business, of an inactive one (b2), or of none (b9)
CallExecute ==
    /\ fncall.pc = "ready"
    /\ \E cat \in {Catalog(BaseProducts \cup ExtraProducts, cs) : cs \in SUBSET CategoryPool}
                     \cup {Catalog(PostProducts, CategoryPool), Catalog({}, {})},
          function_name \in {"get_categories", "get_products_by_category",
                             "get_product_details", "search_products",
                             "handle_yes_response",
                             "identify_product_from_post_context", "get_orders"},
          keys \in {{}, {"category_name"}, {"product_name"}, {"search_term"},
                    {"post_caption", "user_message"}},
          text \in {<<>>, <<"a", "B">>, <<"a", "b", "a", "b">>},
          isDict \in BOOLEAN,
          business_id \in {"b1", "b2", "b3", "b9"},
          tie \in {"asc", "desc"} :
          /\ ~isDict => (keys = {} /\ text = <<>>)
          /\ fncall' = [pc |-> "returned", name |-> "execute_function",
                        args |-> [catalog |-> cat, business |-> business_id,
                                  function_name |-> function_name, tie |-> tie,
                                  function_args |-> [dict |-> isDict, kv |-> [k \in keys |-> text]]],
                        result |-> execute_function(businesses, cat, function_name,
                                       [dict |-> isDict, kv |-> [k \in keys |-> text]],
                                       business_id, tie)]
    /\ UNCHANGED <<businesses, secret, customers, logs, now, req, idx, pc, loc, calls, last, status, nreq, nev, aicall, procs>>

NextCatalog ==
    \/ CallSearch
    \/ CallProductsByCategory
    \/ CallIdentify
    \/ CallExecute

SpecCatalog == InitAI /\ [][NextCatalog]_vars

\* C19: search_products returns at most 10 products, each of them once,
\* each an active product of the business whose name or description
\* contains the term, case aside, in ascending order of name
C19_SearchBounded ==
    (fncall.pc = "returned" /\ fncall.name = "search_products") =>
        LET ps == fncall.result.products
            RowOf(rec) == CHOOSE p \in fncall.args.catalog.products : p.pk = rec.pk
        IN /\ Len(ps) <= 10
           /\ fncall.result.total_found = Len(ps)
           /\ \A i \in 1..Len(ps) :
                 /\ \E p \in fncall.args.catalog.products : p.pk = ps[i].pk
                 /\ RowOf(ps[i]).active
                 /\ RowOf(ps[i]).business = fncall.args.business
                 /\ \/ icontains(RowOf(ps[i]).name, fncall.args.term)
                    \/ icontains(RowOf(ps[i]).description, fncall.args.term)
           /\ \A i \in 1..Len(ps) : \A j \in 1..Len(ps) :
                 i < j => (ps[i].pk # ps[j].pk /\ ~StrLess(ps[j].name, ps[i].name))

\* A search over a catalog with twelve active products of the business,
\* an inactive one and one of another business returned ten
C19_Witness ==
    /\ fncall.pc = "returned" /\ fncall.name = "search_products"
    /\ fncall.args.business = "b1" /\ fncall.args.term = <<"a">>
    /\ Cardinality({p \in fncall.args.catalog.products :
                       p.business = "b1" /\ p.active}) >= 12
    /\ \E p \in fncall.args.catalog.products : ~p.active
    /\ \E p \in fncall.args.catalog.products : p.business = "b3"
    /\ Len(fncall.result.products) = 10

\* C20: list_products_by_category returns a not-found result when no
\* category of the business matches the name, case aside; otherwise it names
\* a matching category and returns the active products of that category,
\* all of them and no others, in ascending order of name
C20_CategoryListing ==
    (fncall.pc = "returned" /\ fncall.name = "get_products_by_category") =>
        LET matching == {c \in fncall.args.catalog.categories :
                            /\ c.business = fncall.args.business
                            /\ icontains(c.name, fncall.args.term)}
        IN IF matching = {}
           THEN DOMAIN fncall.result = {"error"}
           ELSE /\ "error" \notin DOMAIN fncall.result
                /\ \E c \in matching :
                      LET ps == fncall.result.products
                      IN /\ fncall.result.category = c.name
                         /\ fncall.result.total_products = Len(ps)
                         /\ {ps[i].pk : i \in 1..Len(ps)} =
                               {p.pk : p \in {q \in fncall.args.catalog.products :
                                                 q.category = c.pk /\ q.active}}
                         /\ \A i \in 1..Len(ps) : \A j \in 1..Len(ps) :
                               i < j => (ps[i].pk # ps[j].pk
                                         /\ ~StrLess(ps[j].name, ps[i].name))

\* A name written in another case than the category's found the category,
\* which holds an inactive product too, and several products came back
C20_Witness ==
    /\ fncall.pc = "returned" /\ fncall.name = "get_products_by_category"
    /\ fncall.args.term = <<"a", "B">>
    /\ "error" \notin DOMAIN fncall.result
    /\ fncall.result.category = <<"A", "b">>
    /\ \E p \in fncall.args.catalog.products : p.category = 1 /\ ~p.active
    /\ Len(fncall.result.products) >= 2

\* C21: when phase 1 of identify_product_from_post_context finds nothing,
\* the products of the phase-2 result are pairwise different, at most 5,
\* and each carries a word of the caption longer than 3 characters that its
\* name or description contains
C21_KeywordMatchesDeduplicated ==
    (/\ fncall.pc = "returned"
     /\ fncall.name = "identify_product_from_post_context"
     /\ fncall.result.found
     /\ fncall.result.message[1] = "matching keywords") =>
        LET ps == fncall.result.products
            words == Words(LowerStr(fncall.args.term))
        IN /\ Len(ps) <= 5
           /\ \A i \in 1..Len(ps) : \A j \in 1..Len(ps) :
                 i # j => ps[i].pk # ps[j].pk
           /\ \A i \in 1..Len(ps) :
                 /\ \E k \in 1..Len(words) : words[k] = ps[i].match_reason
                 /\ Len(ps[i].match_reason) > 3
                 /\ \/ icontains(ps[i].name, ps[i].match_reason)
                    \/ icontains(ps[i].description, ps[i].match_reason)

\* C22: identify_product_from_post_context answers found = FALSE exactly
\* when no active product of the business matches in phase 1 (its name, or
\* a word of its name longer than 3 characters, occurs in the lower-cased
\* caption) and none matches in phase 2 (a caption word longer than 3
\* characters occurs in its name or description); a phase-2 answer is given
\* only when phase 1 matches nothing; and a product whose whole name occurs
\* in the caption is in the phase-1 answer
C22_NotFoundIffBothPhasesEmpty ==
    (fncall.pc = "returned" /\ fncall.name = "identify_product_from_post_context") =>
        LET caption == LowerStr(fncall.args.term)
            rows == {p \in fncall.args.catalog.products :
                        p.business = fncall.args.business /\ p.active}
            LongWords(s) == {Words(s)[i] : i \in {j \in 1..Len(Words(s)) :
                                                     Len(Words(s)[j]) > 3}}
            phase1 == {p \in rows :
                          \/ icontains(caption, p.name)
                          \/ \E w \in LongWords(LowerStr(p.name)) : icontains(caption, w)}
            phase2 == {p \in rows :
                          \E w \in LongWords(caption) :
                              icontains(p.name, w) \/ icontains(p.description, w)}
        IN /\ ~fncall.result.found <=> (phase1 = {} /\ phase2 = {})
           /\ fncall.result.message[1] = "matching keywords" => phase1 = {}
           /\ \A p \in rows :
                 icontains(caption, p.name) =>
                     /\ fncall.result.found
                     /\ fncall.result.message[1] = "mentioned in the post caption"
                     /\ \E i \in 1..Len(fncall.result.products) :
                           fncall.result.products[i].pk = p.pk

\* A caption with a word longer than 3 characters was looked up among
\* several active products of the business, and nothing was found
C22_Witness ==
    /\ fncall.pc = "returned" /\ fncall.name = "identify_product_from_post_context"
    /\ ~fncall.result.found
    /\ fncall.args.term = <<"b", "b", "b", "b", " ", "b", "b">>
    /\ Cardinality({p \in fncall.args.catalog.products :
                       p.business = fncall.args.business /\ p.active}) >= 3

\* C23: whatever the tool name, the arguments and the business id,
\* _execute_function returns a dict (data, or a record with the key "error")
\* and raises nothing; it is an error record when the business is missing or
\* inactive, when the name is not one it dispatches, and when the arguments
\* are no dict and the function reads them
C23_ExecuteNeverRaises ==
    (fncall.pc = "returned" /\ fncall.name = "execute_function") =>
        /\ "raised" \notin DOMAIN fncall.result
        /\ (\/ fncall.args.business \notin DOMAIN businesses
            \/ ~businesses[fncall.args.business].active
            \/ fncall.args.function_name = "get_orders"
            \/ (~fncall.args.function_args.dict
                /\ fncall.args.function_name # "get_categories"))
              => DOMAIN fncall.result = {"error"}

\* A call for a business that does not exist, with arguments that are no
\* dict, came back with an error record
C23_Witness ==
    /\ fncall.pc = "returned" /\ fncall.name = "execute_function"
    /\ fncall.args.business = "b9"
    /\ fncall.args.function_name = "search_products"
    /\ ~fncall.args.function_args.dict
    /\ DOMAIN fncall.result = {"error"}

\* C24: every product record of every result of a catalog function, called
\* on its own or through _execute_function, has no stock count in it: its
\* keys are those of the dicts of the code, and available is the boolean
\* stock > 0 of the row
C24_StockNeverExposed ==
    fncall.pc = "returned" =>
        LET records ==
                IF "products" \in DOMAIN fncall.result
                THEN {fncall.result.products[i] : i \in 1..Len(fncall.result.products)}
                ELSE IF "available" \in DOMAIN fncall.result THEN {fncall.result}
                ELSE {}
        IN \A rec \in records :
              /\ DOMAIN rec \subseteq {"pk", "name", "description", "category",
                                        "available", "match_reason"}
              /\ \E p \in fncall.args.catalog.products :
                    p.pk = rec.pk /\ rec.available = (p.stock > 0)

\* A result listed a product with several pieces in stock and one with none
C24_Witness ==
    /\ fncall.pc = "returned"
    /\ "products" \in DOMAIN fncall.result
    /\ \E i, j \in 1..Len(fncall.result.products) :
          /\ fncall.result.products[i].available
          /\ ~fncall.result.products[j].available
          /\ \E p \in fncall.args.catalog.products :
                p.pk = fncall.result.products[i].pk /\ p.stock > 1

\* C25 as stated: the menu is exactly get_categories,
\* get_products_by_category, get_product_details, search_products and
\* identify_product_from_post_context, and _execute_function, called for an
\* active business, dispatches a name exactly when it is one of these five
C25_FiveTools ==
    (/\ fncall.pc = "returned" /\ fncall.name = "execute_function"
     /\ fncall.args.business \in DOMAIN businesses
     /\ businesses[fncall.args.business].active) =>
        /\ functions = {"get_categories", "get_products_by_category",
                        "get_product_details", "search_products",
                        "identify_product_from_post_context"}
        /\ ~("error" \in DOMAIN fncall.result
              /\ fncall.result.error[1] = "Unknown function")
             <=> fncall.args.function_name \in
                    {"get_categories", "get_products_by_category",
                     "get_product_details", "search_products",
                     "identify_product_from_post_context"}

\* C25, amended: the menu is those five names and handle_yes_response;
\* _execute_function, called for an active business, dispatches a name
\* exactly when it is in the menu; and handle_yes_response gives what
\* get_products_by_category gives on the same arguments
C25_SixTools ==
    (/\ fncall.pc = "returned" /\ fncall.name = "execute_function"
     /\ fncall.args.business \in DOMAIN businesses
     /\ businesses[fncall.args.business].active) =>
        /\ functions = {"get_categories", "get_products_by_category",
                        "get_product_details", "search_products",
                        "identify_product_from_post_context"}
                          \cup {"handle_yes_response"}
        /\ ~("error" \in DOMAIN fncall.result
              /\ fncall.result.error[1] = "Unknown function")
             <=> fncall.args.function_name \in functions
        /\ fncall.args.function_name = "handle_yes_response" =>
              fncall.result =
                  execute_function(businesses, fncall.args.catalog,
                                   "get_products_by_category",
                                   fncall.args.function_args,
                                   fncall.args.business, fncall.args.tie)

\* handle_yes_response was called with a category name for an active
\* business and listed products
C25_Witness ==
    /\ fncall.pc = "returned" /\ fncall.name = "execute_function"
    /\ fncall.args.function_name = "handle_yes_response"
    /\ fncall.args.business = "b1"
    /\ "products" \in DOMAIN fncall.result
    /\ Len(fncall.result.products) >= 2

\* C26: get_categories for an active business lists, in ascending order of
\* name, the categories the business owns and the global ones (business
\* NULL), each with its name, its is_global flag and its product_count
C26_GlobalCategoriesListed ==
    (/\ fncall.pc = "returned" /\ fncall.name = "execute_function"
     /\ fncall.args.function_name = "get_categories"
     /\ fncall.args.business \in DOMAIN businesses
     /\ businesses[fncall.args.business].active) =>
        LET visible == {c \in fncall.args.catalog.categories :
                           c.business = fncall.args.business \/ c.business = NoneVal}
            cs == fncall.result.categories
        IN /\ Len(cs) = Cardinality(visible)
           /\ \A c \in visible :
                 \E i \in 1..Len(cs) :
                     /\ cs[i].name = c.name
                     /\ cs[i].is_global = c.is_global
                     /\ cs[i].product_count =
                           Cardinality({p \in fncall.args.catalog.products :
                                           p.category = c.pk /\ p.active})
           /\ \A i \in 1..Len(cs) : \A j \in 1..Len(cs) :
                 i < j => ~StrLess(cs[j].name, cs[i].name)

\* C27: every product in a result of a catalog function called for business
\* B is an active product of B, and every product_count of get_categories
\* is the number of active products of B filed under the category
C27_ScopedToBusiness ==
    (/\ fncall.pc = "returned"
     /\ fncall.name \in {"search_products", "get_products_by_category",
                         "identify_product_from_post_context", "execute_function"}) =>
        LET records ==
                IF "products" \in DOMAIN fncall.result
                THEN {fncall.result.products[i] : i \in 1..Len(fncall.result.products)}
                ELSE IF "available" \in DOMAIN fncall.result THEN {fncall.result}
                ELSE {}
            counts ==
                IF "categories" \in DOMAIN fncall.result
                THEN {fncall.result.categories[i] : i \in 1..Len(fncall.result.categories)}
                ELSE {}
        IN /\ \A rec \in records :
                 \E p \in fncall.args.catalog.products :
                     p.pk = rec.pk /\ p.active /\ p.business = fncall.args.business
           /\ \A k \in counts :
                 \E c \in fncall.args.catalog.categories :
                     /\ c.business = fncall.args.business
                     /\ c.name = k.name
                     /\ k.product_count =
                           Cardinality({p \in fncall.args.catalog.products :
                                           /\ p.category = c.pk
                                           /\ p.active
                                           /\ p.business = fncall.args.business})

\* C28: a message of more than MAX_MESSAGE_LENGTH characters for an active
\* business is not turned away: the user message of the call is its first
\* MAX_MESSAGE_LENGTH characters and nothing else, the model is asked when
\* the key is configured, and when the model answers with a text the reply
\* is that text, stripped
C28_LongMessageTruncated ==
    (/\ aicall.pc = "returned"
     /\ Len(aicall.msg) > MAX_MESSAGE_LENGTH
     /\ aicall.bid \in DOMAIN businesses
     /\ businesses[aicall.bid].active) =>
        /\ Len(aicall.result.user_message) = MAX_MESSAGE_LENGTH
        /\ \A i \in 1..MAX_MESSAGE_LENGTH : aicall.result.user_message[i] = aicall.msg[i]
        /\ aicall.result.text \notin {EmptyMessageReply, BusinessErrorReply}
        /\ aicall.m.key => aicall.result.model_calls >= 1
        /\ (aicall.m.key /\ aicall.m.first = "text") =>
              aicall.result.text = Strip(aicall.m.content)

\* A message of MAX_MESSAGE_LENGTH + 2 characters was answered by the model
C28_Witness ==
    /\ aicall.pc = "returned"
    /\ Len(aicall.msg) = MAX_MESSAGE_LENGTH + 2
    /\ aicall.bid = "b1"
    /\ aicall.m.key /\ aicall.m.first = "text"
    /\ aicall.result.text = <<"r1">>
    /\ Len(aicall.result.user_message) = MAX_MESSAGE_LENGTH

-----------------------------------------------------------------------------
(* core/views.py: _enhance_message_with_post_context on its own *)

\* Any text and any context: no key at all (None and {} alike), or any of
\* the keys the function looks at and one it does not, with either of two
\* captions
CallEnhance ==
    /\ fncall.pc = "ready"
    /\ \E text \in {<<>>, <<"hi">>, <<"price?">>, <<"how", "much", "?">>},
          keys \in SUBSET {"media_id", "post_id", "post_url", "post_caption",
                           "story_id", "reel_id", "asset_id"},
          caption \in {"cap1", "cap2"} :
          LET ctx == [k \in keys |-> IF k = "post_caption" THEN caption ELSE "v_" \o k]
          IN fncall' = [pc |-> "returned", name |-> "enhance_message_with_post_context",
                        args |-> [message_text |-> text, post_context |-> ctx],
                        result |-> enhance_message_with_post_context(text, ctx)]
    /\ UNCHANGED <<businesses, secret, customers, logs, now, req, idx, pc, loc, calls, last, status, nreq, nev, aicall, procs>>

SpecEnhance == InitAI /\ [][CallEnhance]_vars

\* C29: _enhance_message_with_post_context returns the text as it is when
\* the context is absent or empty; when the context holds post_caption and
\* nothing else, the result begins with the text and holds the marker
\* "[Post caption: <caption>]" with the caption of the context in it
C29_CaptionMarker ==
    (fncall.pc = "returned" /\ fncall.name = "enhance_message_with_post_context") =>
        LET text == fncall.args.message_text
            ctx == fncall.args.post_context
            out == fncall.result
        IN /\ DOMAIN ctx = {} => out = text
           /\ DOMAIN ctx = {"post_caption"} =>
                 /\ Len(out) > Len(text)
                 /\ SubSeq(out, 1, Len(text)) = text
                 /\ \E i \in 1..(Len(out) - 1) :
                       out[i] = "[Post caption:" /\ out[i + 1] = ctx.post_caption

\* A question was enhanced with a context that holds a caption only
C29_Witness ==
    /\ fncall.pc = "returned" /\ fncall.name = "enhance_message_with_post_context"
    /\ fncall.args.message_text = <<"price?">>
    /\ DOMAIN fncall.args.post_context = {"post_caption"}
    /\ fncall.args.post_context.post_caption = "cap2"
    /\ fncall.result # fncall.args.message_text

-----------------------------------------------------------------------------
(* core/views.py lines 611-623: several requests handled at the same time *)

\* Each request carries one text event for business b1.  Statements are
\* committed one by one (autocommit), and the statements of different
\* requests come in any order.  get_or_create is a get; when that finds
\* nothing, a create; and when the unique constraint of Customer.Meta
\* refuses the create, a second get.  A Customer row carries its pk here.

\* Lines 612-617: MessageLog.objects.create, the first statement after the
\* sender id is read
RaceInbound ==
    \E p \in 1..MaxProcs, sender \in {Id("u1"), Id("u2")} :
        /\ procs[p].pc = "idle"
        /\ logs' = Append(logs, MessageLog("b1", NoCustomer, sender, <<"hi">>,
                                           ReplyNone, "incoming", NoneVal, now, p))
        /\ procs' = [procs EXCEPT ![p].pc = "get", ![p].sender = sender]
        /\ UNCHANGED <<businesses, secret, customers, now, req, idx, pc, loc, calls, last, status, nreq, nev, aicall, fncall>>

\* get_or_create, lines 620-624: the get
RaceGet ==
    \E p \in 1..MaxProcs :
        /\ procs[p].pc = "get"
        /\ procs' = [procs EXCEPT ![p].pc =
                        IF \E c \in customers :
                               c.business = "b1" /\ c.platform_id = procs[p].sender
                        THEN "done" ELSE "create"]
        /\ UNCHANGED <<businesses, secret, customers, logs, now, req, idx, pc, loc, calls, last, status, nreq, nev, aicall, fncall>>

\* The create of a database without the unique constraint
RaceCreate_unconstrained ==
    \E p \in 1..MaxProcs :
        /\ procs[p].pc = "create"
        /\ customers' = customers \cup
               {Customer("instagram", procs[p].sender, "b1")
                    @@ [pk |-> Cardinality(customers) + 1]}
        /\ procs' = [procs EXCEPT ![p].pc = "done", ![p].created = TRUE]
        /\ UNCHANGED <<businesses, secret, logs, now, req, idx, pc, loc, calls, last, status, nreq, nev, aicall, fncall>>

\* get_or_create: the create.  The database refuses a second row of
\* (platform, platform_id, business) with an IntegrityError
RaceCreate ==
    \E p \in 1..MaxProcs :
        /\ procs[p].pc = "create"
        /\ IF \E c \in customers : c.business = "b1" /\ c.platform_id = procs[p].sender
           THEN /\ procs' = [procs EXCEPT ![p].pc = "get again", ![p].conflict = TRUE]
                /\ UNCHANGED customers
           ELSE /\ customers' = customers \cup
                       {Customer("instagram", procs[p].sender, "b1")
                            @@ [pk |-> Cardinality(customers) + 1]}
                /\ procs' = [procs EXCEPT ![p].pc = "done", ![p].created = TRUE]
        /\ UNCHANGED <<businesses, secret, logs, now, req, idx, pc, loc, calls, last, status, nreq, nev, aicall, fncall>>

\* get_or_create: the get after an IntegrityError, which finds the row
RaceGetAgain ==
    \E p \in 1..MaxProcs :
        /\ procs[p].pc = "get again"
        /\ \E c \in customers : c.business = "b1" /\ c.platform_id = procs[p].sender
        /\ procs' = [procs EXCEPT ![p].pc = "done"]
        /\ UNCHANGED <<businesses, secret, customers, logs, now, req, idx, pc, loc, calls, last, status, nreq, nev, aicall, fncall>>

NextRace ==
    \/ RaceInbound
    \/ RaceGet
    \/ RaceCreate
    \/ RaceGetAgain

SpecRace == InitAI /\ [][NextRace]_vars

\* C30: however the statements of the requests interleave, there is at most
\* one Customer row for each (platform, platform_id, business), and every
\* event that has been taken up has its one inbound MessageLog row
C30_OneCustomerEveryEventLogged ==
    /\ \A c, d \in customers :
          (c.platform = d.platform /\ c.platform_id = d.platform_id
           /\ c.business = d.business) => c = d
    /\ \A p \in 1..MaxProcs :
          procs[p].pc # "idle" =>
              Cardinality({i \in 1..Len(logs) :
                              /\ logs[i].ev = p
                              /\ logs[i].direction = "incoming"
                              /\ logs[i].sender_id = procs[p].sender
                              /\ logs[i].business = "b1"}) = 1

\* Three requests of one unknown sender have ended; two of them had found no
\* Customer row, and the create of one of the two was refused
C30_Witness ==
    /\ \A p \in 1..MaxProcs : procs[p].pc = "done" /\ procs[p].sender = Id("u1")
    /\ \E p \in 1..MaxProcs : procs[p].conflict
    /\ Cardinality({p \in 1..MaxProcs : procs[p].created}) = 1
    /\ Cardinality(customers) = 1
    /\ Len(logs) = MaxProcs

-----------------------------------------------------------------------------
(* core/ai_chat.py: _get_conversation_history and get_ai_response over a   *)
(* MessageLog table that holds rows                                        *)

\* A row is written, at once or HistoryTickStep minutes after the one
\* before: for business b1 and sender u1 an inbound row (views.py 612-617),
\* an outgoing row (650-656) or a row of the context store (983-990); for
\* another sender or another business an inbound row
HistoryLogRow ==
    /\ aicall.pc = "ready"
    /\ Len(logs) < MaxHistoryRows
    /\ \E dt \in {0, HistoryTickStep}, n \in 1..5 :
          /\ now + dt <= MaxHistoryTime
          /\ now' = now + dt
          /\ logs' = Append(logs,
                CASE n = 1 -> MessageLog("b1", NoCustomer, Id("u1"), <<"price?">>,
                                         ReplyNone, "incoming", NoneVal, now', Len(logs) + 1)
                  [] n = 2 -> MessageLog("b1", NoCustomer, Id("u1"), NoText,
                                         ReplyText(<<"r1">>), "outgoing", NoneVal, now',
                                         Len(logs) + 1)
                  [] n = 3 -> MessageLog("b1", NoCustomer, Id("u1"), StoredMarker,
                                         ReplyJson(json_dumps(Put(NoCtx, "media_id", "m1"))),
                                         "incoming", NoneVal, now', Len(logs) + 1)
                  [] n = 4 -> MessageLog("b1", NoCustomer, Id("u2"), <<"hi">>,
                                         ReplyNone, "incoming", NoneVal, now', Len(logs) + 1)
                  [] OTHER -> MessageLog("b2", NoCustomer, Id("u1"), <<"hi">>,
                                         ReplyNone, "incoming", NoneVal, now', Len(logs) + 1))
    /\ UNCHANGED <<businesses, secret, customers, req, idx, pc, loc, calls, last, status, nreq, nev, aicall, fncall, procs>>

\* get_ai_response(bid, msg, sender) for the active business b1 or the
\* inactive business b2, with a model that answers; fncall keeps what
\* _get_conversation_history (line 58) returns for the same business and
\* sender over the same table
HistoryCall ==
    /\ aicall.pc = "ready"
    /\ \E bid \in {"b1", "b2"}, msg \in {<<"hi">>, <<"price?">>, <<" ">>},
          sender \in {Id("u1"), NoSender} :
          LET m == OpenAI(TRUE, "text", "text", <<"r1">>)
          IN /\ aicall' = [pc |-> "returned", bid |-> bid, msg |-> msg,
                           sender |-> sender, m |-> m,
                           result |-> get_ai_response(businesses, logs, now, bid,
                                                      msg, sender, m)]
             /\ fncall' = [pc |-> "returned", name |-> "get_conversation_history",
                           args |-> [business |-> bid, sender |-> sender],
                           result |-> get_conversation_history(logs, now, bid, sender)]
    /\ UNCHANGED <<businesses, secret, customers, logs, now, req, idx, pc, loc, calls, last, status, nreq, nev, procs>>

NextHistory ==
    \/ HistoryLogRow
    \/ HistoryCall

SpecHistory == InitAI /\ [][NextHistory]_vars

\* C31: the history fetched for a business and a sender is made of the 3
\* most recent rows of that business and that sender inside the window of
\* HistoryWindow minutes, oldest first, and of no row of another sender or
\* business
C31_ThreeMostRecentRows ==
    (/\ fncall.pc = "returned" /\ fncall.name = "get_conversation_history"
     /\ fncall.args.sender # NoSender) =>
        LET mine == SelectSeq(logs, LAMBDA r :
                        /\ r.business = fncall.args.business
                        /\ r.sender_id = fncall.args.sender
                        /\ r.created_at >= now - HistoryWindow)
        IN fncall.result = HistoryTurns(LastN(mine, 3))

\* C32: when the customer message matches the greeting / general-question
\* phrases, the history passed to the model has at most one entry, the most
\* recent entry of the fetched history; when it does not match, the fetched
\* history is passed on unchanged apart from the cap of its 3 most recent
\* turns.
C32_GreetingKeepsLastTurn ==
    (/\ aicall.pc = "returned"
     /\ aicall.result.model_calls > 0
     /\ fncall.pc = "returned"
     /\ fncall.name = "get_conversation_history") =>
        IF is_greeting_or_general_question(aicall.msg)
        THEN /\ Len(aicall.result.history) <= 1
             /\ aicall.result.history = LastN(fncall.result, 1)
        ELSE aicall.result.history = LastN(fncall.result, 3)

C32_Witness ==
    /\ aicall.pc = "returned"
    /\ fncall.pc = "returned"
    /\ fncall.name = "get_conversation_history"
    /\ is_greeting_or_general_question(aicall.msg)
    /\ Len(fncall.result) >= 2
    /\ aicall.result.history = <<fncall.result[Len(fncall.result)]>>
    /\ aicall.result.model_calls = 1

\* C33: get_ai_response called with an empty or whitespace-only message
\* returns the fixed reply that asks to send the message again, whatever the
\* business id (no business is looked up), whatever the rows of the pair (no
\* history is read) and with no request to the model.
C33_EmptyMessageShortCircuits ==
    (aicall.pc = "returned" /\ Strip(aicall.msg) = <<>>) =>
        /\ aicall.result.text = EmptyMessageReply
        /\ aicall.result.text # BusinessErrorReply
        /\ aicall.result.history = <<>>
        /\ aicall.result.model_calls = 0
        /\ aicall.result.tool_runs = 0

C33_Witness ==
    /\ aicall.pc = "returned"
    /\ aicall.msg = <<" ">>
    /\ aicall.bid = "b2"
    /\ ~businesses["b2"].active
    /\ aicall.m.key
    /\ fncall.pc = "returned"
    /\ fncall.name = "get_conversation_history"
    /\ fncall.result # <<>>
    /\ aicall.result.text = EmptyMessageReply

-----------------------------------------------------------------------------
(* Text-less events, caption tokens and the reply path of                  *)
(* _process_messaging_event                                                *)

\* C34 as stated: an event without message text, on the page of an active
\* business and sent by a platform user, is dropped with no MessageLog row,
\* no Customer row, no AI call and no send, whether or not it carries post
\* context
C34_TextlessEventDropped ==
    (/\ Ended
     /\ req.sig_matches
     /\ OwnedByActive(last.page)
     /\ last.outcome = "no_text"
     /\ \A i \in RowsOf(last.ev) : logs[i].sender_id = Id("u1")) =>
        /\ Len(logs) = last.first
        /\ Cardinality(customers) = last.ncust
        /\ CallsOf("ai") = {}
        /\ CallsOf("send") = {}

\* Two businesses can be replied for: b1 on page p1 and b2 on page p2, each
\* active, with AI enabled and with its own page access token; b1 is the
\* first row of the table
InitTokens ==
    /\ businesses = [Config(TRUE, FALSE, FALSE) EXCEPT !["b2"].active = TRUE]
    /\ secret = TRUE
    /\ customers = {}
    /\ logs = <<>>
    /\ now = 0
    /\ req = NoRequest
    /\ idx = 0
    /\ pc = "idle"
    /\ loc = LocInit
    /\ calls = <<>>
    /\ last = NoSummary
    /\ status = "none"
    /\ nreq = 0
    /\ nev = 0
    /\ aicall = NoAiCall
    /\ fncall = NoFnCall
    /\ procs = [p \in 1..MaxProcs |-> [pc |-> "idle", sender |-> NoSender,
                                      created |-> FALSE, conflict |-> FALSE]]

\* The pipeline serving two businesses
SpecTokens == InitTokens /\ [][Next]_vars

\* C35 as stated: the access token with which the caption of an event's
\* post is fetched is the page access token of the Business resolved from
\* the event's page id, never the token of another business
C35_CaptionTokenOfResolvedBusiness ==
    (pc = "store" /\ req.sig_matches /\ OwnedByActive(loc.page)) =>
        \A i \in CallsOf("caption") :
            calls[i].ev = loc.ev =>
                /\ calls[i].biz = loc.business
                /\ calls[i].token = businesses[loc.business].page_access_token

-----------------------------------------------------------------------------
(* core/views.py: instagram_callback *)

\* instagram_callback (331-446) for a business whose credential fields are
\* cred, at time t.  q is what the callback meets: error (the 'error'
\* parameter is set), code (the 'code' parameter is set), state ("ok",
\* "missing", "malformed": no colon, "bad_signature", "other_business"),
\* short_ok / long_ok / pages_ok (the three Graph API calls succeed),
\* expires_in (<<>>: the key is absent, else <<n>> in units of t), pages (the pages
\* of the user; a page has id, token (<<>>: no 'access_token' key) and
\* account (NoneVal: no instagram_business_account)), taken (another
\* business holds the page id: save() raises IntegrityError) and subscribed.
\* A nullable timestamp is <<>> or <<time>>.
instagram_callback(cred, t, q) ==
    LET back(msg) == [business |-> cred, saved |-> FALSE, message |-> msg]
    IN IF q.error THEN back("oauth_error")
       ELSE IF ~q.code \/ q.state = "missing" THEN back("invalid_parameters")
       ELSE IF q.state = "malformed" THEN back("invalid_state_format")
       ELSE IF q.state = "bad_signature" THEN back("invalid_state")
       ELSE IF q.state = "other_business" THEN back("state_mismatch")
       ELSE IF ~q.short_ok THEN back("exchange_failed")
       ELSE IF ~q.long_ok THEN back("long_lived_failed")
       ELSE IF ~q.pages_ok THEN back("pages_failed")
       ELSE IF q.pages = <<>> THEN back("no_pages")
       ELSE LET token_expires_in == IF q.expires_in = <<>> THEN 0 ELSE q.expires_in[1]
                page == q.pages[1]
            IN IF page.token = <<>> \/ q.taken THEN back("error")
               ELSE [business |->
                        [instagram_page_id |-> page.id,
                         instagram_business_account_id |-> page.account,
                         page_access_token |-> page.token[1],
                         page_token_expires_at |->
                             IF token_expires_in > 0 THEN <<t + token_expires_in>>
                             ELSE cred.page_token_expires_at],
                     saved |-> TRUE,
                     message |-> IF q.subscribed THEN "connected"
                                 ELSE "connected_unsubscribed"]

\* The callback arrives for a business that was never connected or that
\* holds a credential obtained earlier
CallCallback ==
    /\ fncall.pc = "ready"
    /\ \E cred \in {[instagram_page_id |-> NoneVal, instagram_business_account_id |-> NoneVal,
                     page_access_token |-> NoneVal, page_token_expires_at |-> <<>>],
                    [instagram_page_id |-> "p0", instagram_business_account_id |-> "a0",
                     page_access_token |-> "t0", page_token_expires_at |-> <<5>>],
                    [instagram_page_id |-> "p1", instagram_business_account_id |-> "a1",
                     page_access_token |-> "t0", page_token_expires_at |-> <<>>]},
          error \in BOOLEAN, code \in BOOLEAN,
          state \in {"ok", "missing", "malformed", "bad_signature", "other_business"},
          calls_ok \in {<<TRUE, TRUE, TRUE>>, <<FALSE, TRUE, TRUE>>, <<TRUE, FALSE, TRUE>>,
                        <<TRUE, TRUE, FALSE>>},
          expires_in \in {<<>>, <<0>>, <<60>>},
          pages \in {<<>>,
                     <<[id |-> "p1", token |-> <<"t1">>, account |-> "a1"]>>,
                     <<[id |-> "p1", token |-> <<"t1">>, account |-> NoneVal]>>,
                     <<[id |-> "p1", token |-> <<>>, account |-> "a1"]>>,
                     <<[id |-> "p2", token |-> <<"t2">>, account |-> "a2"],
                       [id |-> "p1", token |-> <<"t1">>, account |-> "a1"]>>},
          taken \in BOOLEAN, subscribed \in BOOLEAN :
          LET q == [error |-> error, code |-> code, state |-> state,
                    short_ok |-> calls_ok[1], long_ok |-> calls_ok[2],
                    pages_ok |-> calls_ok[3], expires_in |-> expires_in,
                    pages |-> pages, taken |-> taken, subscribed |-> subscribed]
          IN fncall' = [pc |-> "returned", name |-> "instagram_callback",
                        args |-> [business |-> cred, q |-> q],
                        result |-> instagram_callback(cred, now, q)]
    /\ UNCHANGED <<businesses, secret, customers, logs, now, req, idx, pc, loc, calls, last, status, nreq, nev, aicall, procs>>

SpecOAuth == InitAI /\ [][CallCallback]_vars

\* C36 as stated: after a successful callback the four credential fields
\* of the business are those of the credential just obtained: page id,
\* account id and token of the page, an expiry computed from the answer of
\* the token exchange, and no expiry that the previous credential had
C36_CredentialReplacedWhole ==
    (/\ fncall.pc = "returned"
     /\ fncall.name = "instagram_callback"
     /\ fncall.result.saved) =>
        LET old == fncall.args.business
            new == fncall.result.business
            page == fncall.args.q.pages[1]
        IN /\ new.instagram_page_id = page.id
           /\ new.instagram_business_account_id = page.account
           /\ new.page_access_token = page.token[1]
           /\ old.page_token_expires_at # <<>> =>
                 new.page_token_expires_at # old.page_token_expires_at

\* C37: for every event that is replied to, the AI engine is called with
\* the Business resolved from the page id of the entry, the reply is sent
\* with the page access token of that Business to the sender id of the
\* event's inbound row, and the outgoing row carries that Business, the
\* Customer of that sender and that sender id.
C37_ReplyKeepsBusinessAndSender ==
    (Ended /\ last.outcome = "replied") =>
        LET b == last.business
        IN /\ BusinessMatches(businesses, last.page) = {b}
           /\ Cardinality(InboundRowsOf(last.ev)) = 1
           /\ \A r \in InboundRowsOf(last.ev) :
                 LET s == logs[r].sender_id
                 IN /\ logs[r].business = b
                    /\ \E i \in CallsOf("ai") : calls[i].ev = last.ev
                    /\ \A i \in CallsOf("ai") :
                          calls[i].ev = last.ev => calls[i].biz = b /\ calls[i].target = s
                    /\ \E i \in CallsOf("send") : calls[i].ev = last.ev
                    /\ \A i \in CallsOf("send") :
                          calls[i].ev = last.ev =>
                             /\ calls[i].biz = b
                             /\ calls[i].token = businesses[b].page_access_token
                             /\ calls[i].target = s
                    /\ Cardinality(OutgoingRowsOf(last.ev)) = 1
                    /\ \A o \in OutgoingRowsOf(last.ev) :
                          /\ logs[o].business = b
                          /\ logs[o].sender_id = s
                          /\ logs[o].customer = Customer("instagram", s, b)
                          /\ logs[o].customer \in customers

C37_Witness ==
    /\ Ended
    /\ last.outcome = "replied"
    /\ last.page = "p2"
    /\ last.business = "b2"
    /\ \E i \in CallsOf("send") : calls[i].token = "t2" /\ calls[i].target = Id("u1")
    /\ \E o \in OutgoingRowsOf(last.ev) :
          logs[o].business = "b2" /\ logs[o].sender_id = Id("u1")

\* C38 as stated: the history passed to the model holds only texts of the
\* customer (user turns) and replies (assistant turns): no turn comes from a
\* '[POST_CONTEXT_STORED]' row of the context store, and the history is the
\* one that the table without those rows gives, so that no marker row takes
\* the place of one of the 3 rows
C38_NoMarkerRowsInHistory ==
    (/\ aicall.pc = "returned"
     /\ aicall.sender # NoSender
     /\ aicall.result.model_calls > 0) =>
        LET real == SelectSeq(logs, LAMBDA r : r.incoming_text # StoredMarker)
            history == aicall.result.history
        IN /\ \A i \in 1..Len(history) :
                 /\ history[i].content # ReplyText(StoredMarker)
                 /\ history[i].content.kind # "json"
           /\ history = get_ai_response(businesses, real, now, aicall.bid, aicall.msg,
                                        aicall.sender, aicall.m).history

-----------------------------------------------------------------------------
(* core/views.py: product_import_excel *)

\* The loop of product_import_excel (156-246) from row i on.  A row of the
\* sheet is valid (name and price pass 162-178) or not, has a category value
\* (NoneVal: none) and fails or not (Product.objects.create raises, for
\* instance on a name longer than the column).  created is the Python
\* variable of that name: [bool |-> FALSE, v |-> n] is the integer n and
\* [bool |-> TRUE, v |-> 0 or 1] is False or True, which line 220 binds to
\* it and to which line 242 adds 1.  cats are the names of the categories of
\* the business, products the number of Product rows created.
RECURSIVE import_rows(_, _, _, _, _, _)
import_rows(rows, i, created, products, cats, errors) ==
    IF i > Len(rows)
    THEN [created |-> created, products |-> products, cats |-> cats, errors |-> errors]
    ELSE LET row == rows[i]
             bound == IF row.category = NoneVal THEN created
                      ELSE [bool |-> TRUE, v |-> IF row.category \in cats THEN 0 ELSE 1]
             cats2 == IF row.category = NoneVal THEN cats ELSE cats \cup {row.category}
         IN IF ~row.valid
            THEN import_rows(rows, i + 1, created, products, cats, errors + 1)
            ELSE IF row.fails
            THEN import_rows(rows, i + 1, bound, products, cats2, errors + 1)
            ELSE import_rows(rows, i + 1, [bool |-> FALSE, v |-> bound.v + 1],
                             products + 1, cats2, errors)

\* product_import_excel for a sheet that could be read: the loop and the
\* messages of 255-258 ("imported" carries str(created): a number, or
\* 'True' / 'False')
product_import_excel(rows, cats) ==
    LET r == import_rows(rows, 1, [bool |-> FALSE, v |-> 0], 0, cats, 0)
    IN [products |-> r.products, cats |-> r.cats, errors |-> r.errors,
        message |-> IF r.created.v > 0 THEN "imported" ELSE "none_imported",
        count |-> r.created]

\* A sheet of up to MaxImportRows rows is imported for a business that has
\* no category or has the category c1
CallImport ==
    /\ fncall.pc = "ready"
    /\ \E cats \in {{}, {"c1"}},
          rows \in SeqsUpTo({[valid |-> v, category |-> c, fails |-> f] :
                                v \in BOOLEAN, c \in {NoneVal, "c1", "c2"},
                                f \in BOOLEAN}, MaxImportRows) :
          fncall' = [pc |-> "returned", name |-> "product_import_excel",
                     args |-> [rows |-> rows, cats |-> cats],
                     result |-> product_import_excel(rows, cats)]
    /\ UNCHANGED <<businesses, secret, customers, logs, now, req, idx, pc, loc, calls, last, status, nreq, nev, aicall, procs>>

SpecImport == InitAI /\ [][CallImport]_vars

\* C39 as stated: after a sheet has been processed the number of imported
\* products that is reported is the number of Product rows created, and
\* 'No products were imported' is reported iff no Product row was created,
\* for every mix of valid rows, invalid rows and rows with or without a
\* category value
C39_ImportCountIsRowsCreated ==
    (fncall.pc = "returned" /\ fncall.name = "product_import_excel") =>
        /\ fncall.result.message = "none_imported" <=> fncall.result.products = 0
        /\ fncall.result.message = "imported" =>
              fncall.result.count = [bool |-> FALSE, v |-> fncall.result.products]

====
